---------------------------- MODULE Spec2Model ----------------------------
(***************************************************************************)
(* Inventory control service: stock ledger, reservation state machine,     *)
(* reservation coordinator, stock-item repository, event consumer, outbox  *)
(* publisher, low-stock alerts, reservation allocator, JWT key cache and   *)
(* RBAC middleware.                                                         *)
(*                                                                          *)
(* Each component has its own specification (SpecLedger, SpecReservation,   *)
(* SpecCoord, SpecRepo, SpecConsumer, SpecOutbox, SpecDrain,               *)
(* SpecLifecycle, SpecAlert, SpecBackoff, SpecJWKS, SpecRBAC,              *)
(* SpecAllocator).  A specification initialises the components it does    *)
(* not exercise to a fixed idle value and leaves them unchanged.           *)
(*                                                                          *)
(* Time is an integer clock `now`; a nil *time.Time is the empty set and a  *)
(* set pointer is the singleton of its instant.  UpdatedAt / CreatedAt of   *)
(* the entities are written by every mutator and read by none: they are    *)
(* not part of the state.  Quantities are Go ints; the model draws them    *)
(* from small ranges far below the 64-bit width.                            *)
(***************************************************************************)
EXTENDS Integers, Sequences, FiniteSets, TLC

VARIABLES
    now,          \* the clock read by time.Now()
    stock,        \* SpecLedger: one StockItem
    ledgerLast,   \* SpecLedger: the last two mutator calls: argument, error and pre-image
    res,          \* SpecReservation: one Reservation
    resLast,      \* SpecReservation: the last transition call, its error and pre-image
    stockItems,   \* SpecCoord/SpecConsumer: stock_items table, StockIds -> StockItem
    reservations, \* SpecCoord/SpecConsumer: reservations table, a sequence indexed by id
    coordLast,    \* SpecCoord: the last coordinator use case and its outcome
    row,          \* SpecRepo: the stored stock item row and its version
    tx,           \* SpecRepo: per worker, the read-modify-write operation in progress
    processed,    \* SpecConsumer: processed_events table, set of <<event_id, topic>>
    consumers,    \* SpecConsumer: per consumer worker, the delivery being handled
    delivered,    \* SpecConsumer: deliveries so far per <<event_id, topic>>
    effects,      \* SpecConsumer: committed business effects per <<event_id, topic>>
    outbox,       \* SpecOutbox: outbox table, a sequence of OutboxEntry indexed by id
    bus,          \* SpecOutbox: entry ids in the order SendMessage delivered them
    pub,          \* SpecOutbox: per processing loop, its batch and position in it
    life,         \* SpecLifecycle: the publisher's Start/Stop state and its producer
    alerts,       \* SpecAlert: low_stock_alerts table, a sequence indexed by id
    alertLast,    \* SpecAlert: the last Acknowledge/Resolve call, its error and pre-image
    backoff,      \* SpecBackoff: the loop's ticker and, per entry, its last failed send
    jwt,          \* SpecJWKS: the JWT middleware's key map, its lock and the refresh in progress
    rbac,         \* SpecRBAC: the last request served through the RBAC middleware
    alloc,        \* SpecAllocator: a stock snapshot and the allocator's last answer on it
    emitted,      \* SpecEvents: the outbox rows written for the reservation events so far
    calc,         \* SpecCalc: per retry count, the backoff calculateBackoff returned for it
    sev           \* SpecSeverity: the last post-image classified and the severities that hold

vars == <<now, stock, ledgerLast, res, resLast, stockItems, reservations, coordLast,
          row, tx, processed, consumers, delivered, effects, outbox, bus, pub, life,
          alerts, alertLast, backoff, jwt, rbac, alloc, emitted, calc, sev>>

ledgerVars   == <<stock, ledgerLast>>
resVars      == <<res, resLast>>
coordVars    == <<stockItems, reservations, coordLast>>
repoVars     == <<row, tx>>
consumerVars == <<processed, consumers, delivered, effects>>
outboxVars   == <<outbox, bus, pub>>
lifeVars     == <<life>>
alertVars    == <<alerts, alertLast>>
backoffVars  == <<backoff>>
jwtVars      == <<jwt>>
rbacVars     == <<rbac>>
allocVars    == <<alloc>>
eventVars    == <<emitted>>
calcVars     == <<calc>>
sevVars      == <<sev>>
lateVars     == <<eventVars, calcVars, sevVars>>
otherVars    == <<alertVars, backoffVars, jwtVars, rbacVars, allocVars, lateVars>>

---------------------------------------------------------------------------
(* Bounds of the model *)

MaxTime == 2
MaxOnHand == 2
MaxQty == 2
MaxReorder == 1

Time == 0..MaxTime
NilTime == {}

Max(a, b) == IF a >= b THEN a ELSE b
Min(a, b) == IF a <= b THEN a ELSE b

RECURSIVE SumSeq(_)
SumSeq(s) == IF s = <<>> THEN 0 ELSE Head(s) + SumSeq(Tail(s))

\* The clock advances between any two steps of the program.
Tick ==
    /\ now < MaxTime
    /\ now' = now + 1

---------------------------------------------------------------------------
(* StockItem (internal/domain/entity/stock_item.go) *)

Nil == "nil"
ErrQuantityNegative == "quantity cannot be negative"
ErrInsufficientStock == "insufficient stock available"
ErrInsufficientReserved == "insufficient reserved stock"

NewStockItem(reorderPoint, reorderQuantity) ==
    [QuantityOnHand |-> 0, QuantityReserved |-> 0,
     ReorderPoint |-> reorderPoint, ReorderQuantity |-> reorderQuantity]

AvailableQuantity(s) == s.QuantityOnHand - s.QuantityReserved

\* A mutator returns the error and the item as the call leaves it.
Result(err, s) == [err |-> err, item |-> s]

\* Mutant: the availability check is dropped.
StockItem_Reserve_NoCheck(s, quantity) ==
    IF quantity < 0 THEN Result(ErrQuantityNegative, s)
    ELSE Result(Nil, [s EXCEPT !.QuantityReserved = @ + quantity])

\* Mutant: the available quantity itself is refused.
StockItem_Reserve_OffByOne(s, quantity) ==
    IF quantity < 0 THEN Result(ErrQuantityNegative, s)
    ELSE IF AvailableQuantity(s) <= quantity THEN Result(ErrInsufficientStock, s)
    ELSE Result(Nil, [s EXCEPT !.QuantityReserved = @ + quantity])

StockItem_Reserve(s, quantity) ==
    IF quantity < 0 THEN Result(ErrQuantityNegative, s)
    ELSE IF AvailableQuantity(s) < quantity THEN Result(ErrInsufficientStock, s)
    ELSE Result(Nil, [s EXCEPT !.QuantityReserved = @ + quantity])

\* Mutant: a refused release clears the hold.
StockItem_ReleaseReservation_ClearsOnError(s, quantity) ==
    IF quantity < 0 THEN Result(ErrQuantityNegative, s)
    ELSE IF s.QuantityReserved < quantity
        THEN Result(ErrInsufficientReserved, [s EXCEPT !.QuantityReserved = 0])
    ELSE Result(Nil, [s EXCEPT !.QuantityReserved = @ - quantity])

\* Mutant: the hold is not given back.
StockItem_ReleaseReservation_Kept(s, quantity) ==
    IF quantity < 0 THEN Result(ErrQuantityNegative, s)
    ELSE IF s.QuantityReserved < quantity THEN Result(ErrInsufficientReserved, s)
    ELSE Result(Nil, s)

StockItem_ReleaseReservation(s, quantity) ==
    IF quantity < 0 THEN Result(ErrQuantityNegative, s)
    ELSE IF s.QuantityReserved < quantity THEN Result(ErrInsufficientReserved, s)
    ELSE Result(Nil, [s EXCEPT !.QuantityReserved = @ - quantity])

\* Mutant: the shipped quantity stays on hand.
StockItem_Fulfill_OnHandKept(s, quantity) ==
    IF quantity < 0 THEN Result(ErrQuantityNegative, s)
    ELSE IF s.QuantityReserved < quantity THEN Result(ErrInsufficientReserved, s)
    ELSE IF s.QuantityOnHand < quantity THEN Result(ErrInsufficientStock, s)
    ELSE Result(Nil, [s EXCEPT !.QuantityReserved = @ - quantity])

StockItem_Fulfill(s, quantity) ==
    IF quantity < 0 THEN Result(ErrQuantityNegative, s)
    ELSE IF s.QuantityReserved < quantity THEN Result(ErrInsufficientReserved, s)
    ELSE IF s.QuantityOnHand < quantity THEN Result(ErrInsufficientStock, s)
    ELSE Result(Nil, [s EXCEPT !.QuantityReserved = @ - quantity,
                               !.QuantityOnHand = @ - quantity])

StockItem_Replenish(s, quantity) ==
    IF quantity < 0 THEN Result(ErrQuantityNegative, s)
    ELSE Result(Nil, [s EXCEPT !.QuantityOnHand = @ + quantity])

---------------------------------------------------------------------------
(* StockMovement (internal/domain/entity/stock_movement.go).  The id and the *)
(* stock item id are generated by the caller and never empty.                *)

MovementTypeReplenishment == "REPLENISHMENT"
MovementTypeReservation == "RESERVATION"
MovementTypeRelease == "RELEASE"
MovementTypeFulfillment == "FULFILLMENT"
MovementTypeAdjustment == "ADJUSTMENT"
MovementTypeTransfer == "TRANSFER"

ErrMovementTypeInvalid == "invalid movement type"
ErrMovementQuantityZero == "movement quantity cannot be zero"

isValidMovementType(mt) ==
    mt \in {MovementTypeReplenishment, MovementTypeReservation, MovementTypeRelease,
            MovementTypeFulfillment, MovementTypeAdjustment, MovementTypeTransfer}

NewStockMovement(movementType, quantity, prevOnHand, newOnHand, prevReserved, newReserved) ==
    LET m == [MovementType |-> movementType, Quantity |-> quantity,
              PreviousOnHand |-> prevOnHand, NewOnHand |-> newOnHand,
              PreviousReserved |-> prevReserved, NewReserved |-> newReserved]
    IN  IF ~isValidMovementType(movementType) THEN [err |-> ErrMovementTypeInvalid, m |-> m]
        ELSE IF quantity = 0 THEN [err |-> ErrMovementQuantityZero, m |-> m]
        ELSE [err |-> Nil, m |-> m]

\* The movement the ledger writes for a mutation (spec 4.A): the type of the
\* mutator, the quantity positive for an addition and negative for a
\* reduction, and the counters before and after.
MovementOf(op, q, pre, post) ==
    NewStockMovement(
        CASE op = "Replenish" -> MovementTypeReplenishment
          [] op = "Reserve" -> MovementTypeReservation
          [] op = "ReleaseReservation" -> MovementTypeRelease
          [] op = "Fulfill" -> MovementTypeFulfillment
          [] OTHER -> "",
        IF op \in {"Replenish", "Reserve"} THEN q ELSE 0 - q,
        pre.QuantityOnHand, post.QuantityOnHand,
        pre.QuantityReserved, post.QuantityReserved)

---------------------------------------------------------------------------
(* SpecLedger: any sequence of mutator calls on one StockItem *)

LedgerOps == {"Replenish", "Reserve", "ReleaseReservation", "Fulfill"}

QtyInputs == (0 - 1)..MaxQty

\* A call as the history keeps it: the mutator, its argument, its error and
\* the item before the call.
Call(op, q, err, pre) == [op |-> op, q |-> q, err |-> err, pre |-> pre]

\* ledgerLast holds the last call and, in prev, the call before it.
LedgerCall(op, q, r) ==
    /\ stock' = r.item
    /\ ledgerLast' = [op |-> op, q |-> q, err |-> r.err, pre |-> stock,
                      prev |-> Call(ledgerLast.op, ledgerLast.q, ledgerLast.err,
                                    ledgerLast.pre)]

Replenish(q) ==
    /\ stock.QuantityOnHand + Max(q, 0) <= MaxOnHand
    /\ LedgerCall("Replenish", q, StockItem_Replenish(stock, q))

Reserve(q) == LedgerCall("Reserve", q, StockItem_Reserve(stock, q))

ReleaseReservation(q) ==
    LedgerCall("ReleaseReservation", q, StockItem_ReleaseReservation(stock, q))

Fulfill(q) == LedgerCall("Fulfill", q, StockItem_Fulfill(stock, q))

LedgerInit ==
    /\ \E rp \in 0..MaxReorder, rq \in 0..MaxReorder : stock = NewStockItem(rp, rq)
    /\ ledgerLast = [op |-> "New", q |-> 0, err |-> Nil, pre |-> stock,
                     prev |-> Call("New", 0, Nil, stock)]

LedgerIdle ==
    /\ stock = NewStockItem(0, 0)
    /\ ledgerLast = [op |-> "New", q |-> 0, err |-> Nil, pre |-> stock,
                     prev |-> Call("New", 0, Nil, stock)]

---------------------------------------------------------------------------
(* Reservation (internal/domain/entity/reservation.go) *)

ReservationStatusPending == "PENDING"
ReservationStatusConfirmed == "CONFIRMED"
ReservationStatusReleased == "RELEASED"
ReservationStatusFulfilled == "FULFILLED"
ReservationStatusExpired == "EXPIRED"

ErrReservationItemsRequired == "at least one reservation item is required"
ErrReservationItemQuantity == "reservation item quantity must be positive"
ErrReservationNotPending == "reservation is not in pending status"
ErrReservationNotConfirmed == "reservation is not in confirmed status"
ErrReservationAlreadyReleased == "reservation has already been released"
ErrReservationAlreadyFulfilled == "reservation has already been fulfilled"
ErrReservationExpired == "reservation has expired"

TerminalStatuses ==
    {ReservationStatusFulfilled, ReservationStatusReleased, ReservationStatusExpired}
ActiveStatuses == {ReservationStatusPending, ReservationStatusConfirmed}

ReservationItem(stockItemID, quantity) ==
    [StockItemID |-> stockItemID, Quantity |-> quantity]

\* A transition returns the error and the reservation as the call leaves it.
ResResult(err, r) == [err |-> err, r |-> r]

\* The id and order id are generated by the caller and never empty.
NewReservation(orderID, items, expiresAt) ==
    LET r == [OrderID |-> orderID, Items |-> items,
              Status |-> ReservationStatusPending, ExpiresAt |-> expiresAt,
              ReleasedAt |-> NilTime, FulfilledAt |-> NilTime]
    IN  IF Len(items) = 0 THEN ResResult(ErrReservationItemsRequired, r)
        ELSE IF \E i \in 1..Len(items) : items[i].Quantity <= 0
             THEN ResResult(ErrReservationItemQuantity, r)
        ELSE ResResult(Nil, r)

\* Mutant: the expiry time is not looked at.
Reservation_Confirm_NoExpiry(r, t) ==
    IF r.Status # ReservationStatusPending THEN ResResult(ErrReservationNotPending, r)
    ELSE ResResult(Nil, [r EXCEPT !.Status = ReservationStatusConfirmed])

Reservation_Confirm(r, t) ==
    IF r.Status # ReservationStatusPending THEN ResResult(ErrReservationNotPending, r)
    ELSE IF t > r.ExpiresAt THEN ResResult(ErrReservationExpired, r)
    ELSE ResResult(Nil, [r EXCEPT !.Status = ReservationStatusConfirmed])

\* Mutant: ReleasedAt is not written.
Reservation_Release_NoTimestamp(r, t) ==
    IF r.Status = ReservationStatusReleased
        THEN ResResult(ErrReservationAlreadyReleased, r)
    ELSE IF r.Status = ReservationStatusFulfilled
        THEN ResResult(ErrReservationAlreadyFulfilled, r)
    ELSE ResResult(Nil, [r EXCEPT !.Status = ReservationStatusReleased])

Reservation_Release(r, t) ==
    IF r.Status = ReservationStatusReleased
        THEN ResResult(ErrReservationAlreadyReleased, r)
    ELSE IF r.Status = ReservationStatusFulfilled
        THEN ResResult(ErrReservationAlreadyFulfilled, r)
    ELSE ResResult(Nil, [r EXCEPT !.Status = ReservationStatusReleased,
                                   !.ReleasedAt = {t}])

\* Mutant: only FULFILLED and RELEASED are refused.
Reservation_Fulfill_FromExpired(r, t) ==
    IF r.Status = ReservationStatusFulfilled
        THEN ResResult(ErrReservationAlreadyFulfilled, r)
    ELSE IF r.Status = ReservationStatusReleased
        THEN ResResult(ErrReservationAlreadyReleased, r)
    ELSE ResResult(Nil, [r EXCEPT !.Status = ReservationStatusFulfilled,
                                   !.FulfilledAt = {t}])

Reservation_Fulfill(r, t) ==
    IF r.Status = ReservationStatusFulfilled
        THEN ResResult(ErrReservationAlreadyFulfilled, r)
    ELSE IF r.Status = ReservationStatusReleased
        THEN ResResult(ErrReservationAlreadyReleased, r)
    ELSE IF r.Status # ReservationStatusConfirmed /\ r.Status # ReservationStatusPending
        THEN ResResult(ErrReservationNotConfirmed, r)
    ELSE ResResult(Nil, [r EXCEPT !.Status = ReservationStatusFulfilled,
                                   !.FulfilledAt = {t}])

\* Mutant: a CONFIRMED reservation is refused.
Reservation_Expire_PendingOnly(r, t) ==
    IF r.Status # ReservationStatusPending
        THEN ResResult(ErrReservationNotPending, r)
    ELSE ResResult(Nil, [r EXCEPT !.Status = ReservationStatusExpired])

Reservation_Expire(r, t) ==
    IF r.Status # ReservationStatusPending /\ r.Status # ReservationStatusConfirmed
        THEN ResResult(ErrReservationNotPending, r)
    ELSE ResResult(Nil, [r EXCEPT !.Status = ReservationStatusExpired])

Reservation_IsExpired(r, t) ==
    /\ t > r.ExpiresAt
    /\ r.Status # ReservationStatusFulfilled
    /\ r.Status # ReservationStatusReleased

---------------------------------------------------------------------------
(* SpecReservation: any sequence of transition calls on one Reservation *)

ResCall(op, rr) ==
    /\ res' = rr.r
    /\ resLast' = [op |-> op, err |-> rr.err, pre |-> res, at |-> now]

Confirm == ResCall("Confirm", Reservation_Confirm(res, now))
Release == ResCall("Release", Reservation_Release(res, now))
FulfillReservation == ResCall("Fulfill", Reservation_Fulfill(res, now))
Expire == ResCall("Expire", Reservation_Expire(res, now))

ResInit ==
    /\ \E e \in Time, q \in 1..MaxQty :
          res = NewReservation("O1", <<ReservationItem("S1", q)>>, e).r
    /\ resLast = [op |-> "New", err |-> Nil, pre |-> res, at |-> 0]

ResIdle ==
    /\ res = NewReservation("O1", <<ReservationItem("S1", 1)>>, 0).r
    /\ resLast = [op |-> "New", err |-> Nil, pre |-> res, at |-> 0]

---------------------------------------------------------------------------
(* Reservation coordinator (spec 4.C): each use case is one transaction    *)
(* over the reservations and stock_items tables.  Row locks make the       *)
(* transactions of one stock item serial, so a use case is one step from   *)
(* committed state to committed state; an aborted transaction commits      *)
(* nothing.  The state-machine check of a use case is the Reservation      *)
(* method it calls.  Partial release (partial_items) is not modelled.      *)

MaxReservations == 2

StockIds == {"S1", "S2"}
Orders == {"O1", "O2"}

\* A plan holds each stock item at most once, in ascending stock_item_id order
\* (the order the rows are locked in).
Plans ==
    {<<ReservationItem("S1", q)>> : q \in 0..MaxQty}
    \cup {<<ReservationItem("S2", q)>> : q \in 0..MaxQty}
    \cup {<<ReservationItem("S1", q1), ReservationItem("S2", q2)>> :
              q1 \in 0..MaxQty, q2 \in 0..MaxQty}

Mutate(kind, s, q) ==
    CASE kind = "reserve" -> StockItem_Reserve(s, q)
      [] kind = "release" -> StockItem_ReleaseReservation(s, q)
      [] kind = "fulfill" -> StockItem_Fulfill(s, q)

\* The ledger mutator applied entry by entry; stops at the first failure and
\* reports its index, with the holds applied up to there still in `table`.
RECURSIVE ApplyItems(_, _, _, _)
ApplyItems(kind, items, i, table) ==
    IF i > Len(items) THEN [failedAt |-> 0, err |-> Nil, table |-> table]
    ELSE LET it == items[i]
             r == Mutate(kind, table[it.StockItemID], it.Quantity)
         IN  IF r.err # Nil THEN [failedAt |-> i, err |-> r.err, table |-> table]
             ELSE ApplyItems(kind, items, i + 1,
                             [table EXCEPT ![it.StockItemID] = r.item])

\* Quantity of `items` on stock item s.
QtyOn(items, s) ==
    SumSeq([i \in 1..Len(items) |->
               IF items[i].StockItemID = s THEN items[i].Quantity ELSE 0])

\* Some stock item is asked for more than it has available.
Shortage(plan, table) ==
    \E s \in StockIds : QtyOn(plan, s) > AvailableQuantity(table[s])

\* Mutant: an aborted transaction keeps the holds applied before the failure.
Commit_NoRollback(ok, after, before) == after

\* What a transaction leaves in a table: its writes on commit, nothing on abort.
Commit(ok, after, before) == IF ok THEN after ELSE before

\* The outcome of a use case: the index of the plan entry or item whose ledger
\* call failed (0: none), the quantity held when it failed, whether the call
\* asked some stock item for more than it had available, and the error.
\* rid is the reservation the use case was called on (0: none).
CoordOutcome(op, rid, failedAt, partial, short, err) ==
    [op |-> op, rid |-> rid, failedAt |-> failedAt, partial |-> partial,
     short |-> short, err |-> err]

CoordDone(op, failedAt, partial, short, err) ==
    coordLast' = CoordOutcome(op, 0, failedAt, partial, short, err)

TotalReserved(table) ==
    table["S1"].QuantityReserved + table["S2"].QuantityReserved

Coordinator_Reserve(orderID, plan, expiresAt) ==
    /\ Len(reservations) < MaxReservations
    /\ LET ap == ApplyItems("reserve", plan, 1, stockItems)
           nr == NewReservation(orderID, plan, expiresAt)
           err == IF expiresAt <= now THEN "expires_at is not in the future"
                  ELSE IF ap.failedAt # 0 THEN ap.err
                  ELSE nr.err
           ok == err = Nil
       IN  /\ stockItems' =
                 Commit(ok, IF expiresAt <= now THEN stockItems ELSE ap.table, stockItems)
           /\ reservations' =
                 Commit(ok, Append(reservations, nr.r), reservations)
           /\ CoordDone("Reserve", IF expiresAt <= now THEN 0 ELSE ap.failedAt,
                        IF expiresAt <= now \/ ap.failedAt = 0 THEN 0
                        ELSE TotalReserved(ap.table) - TotalReserved(stockItems),
                        Shortage(plan, stockItems), err)

\* Confirm, Release, Fulfill, Expire: the Reservation transition, then the
\* ledger mutator for every item; any error aborts the transaction.
CoordTransition(op, rid, rr, kind) ==
    LET ap == IF kind = "none" THEN [failedAt |-> 0, err |-> Nil, table |-> stockItems]
              ELSE ApplyItems(kind, reservations[rid].Items, 1, stockItems)
        err == IF rr.err # Nil THEN rr.err ELSE ap.err
        ok == err = Nil
    IN  /\ stockItems' = Commit(ok, ap.table, stockItems)
        /\ reservations' = Commit(ok, [reservations EXCEPT ![rid] = rr.r], reservations)
        /\ coordLast' = CoordOutcome(op, rid, IF rr.err # Nil THEN 0 ELSE ap.failedAt,
                                     0, FALSE, err)

Coordinator_Confirm(rid) ==
    CoordTransition("Confirm", rid, Reservation_Confirm(reservations[rid], now), "none")

Coordinator_Release(rid) ==
    CoordTransition("Release", rid, Reservation_Release(reservations[rid], now), "release")

Coordinator_Fulfill(rid) ==
    CoordTransition("Fulfill", rid, Reservation_Fulfill(reservations[rid], now), "fulfill")

\* The sweeper drives expire for the reservations it fetched as due; by the
\* time it reaches one, another transaction may have changed its status.
Coordinator_Expire(rid) ==
    /\ reservations[rid].ExpiresAt < now
    /\ CoordTransition("Expire", rid, Reservation_Expire(reservations[rid], now), "release")

\* ledger.replenish on one stock item.
Coordinator_Replenish(s, q) ==
    /\ stockItems[s].QuantityOnHand + q <= MaxOnHand
    /\ LET r == StockItem_Replenish(stockItems[s], q)
       IN  /\ stockItems' = [stockItems EXCEPT ![s] = r.item]
           /\ CoordDone("Replenish", 0, 0, FALSE, r.err)
    /\ UNCHANGED reservations

CoordInit ==
    /\ stockItems = [s \in StockIds |-> NewStockItem(0, 0)]
    /\ reservations = <<>>
    /\ coordLast = CoordOutcome("New", 0, 0, 0, FALSE, Nil)

CoordIdle == CoordInit

---------------------------------------------------------------------------
(* StockItemRepository (internal/domain/repository/stock_item_repository.go): *)
(* two concurrent operations, each GetByID, a mutator on the copy, then      *)
(* Update or UpdateWithLock.  The interface is all the repository the source *)
(* holds: Update "persists changes to an existing stock item", and           *)
(* UpdateWithLock compares the caller's expectedVersion with the row's.  The  *)
(* StockItem that GetByID returns has no version field; the expectedVersion   *)
(* a caller passes is the version the row had when it was read (spec 4.A).    *)

RepoWorkers == {1, 2}
RepoOps == {"reserve", "release", "fulfill", "replenish"}
RepoModes == {"Update", "UpdateWithLock"}
ErrConflict == "optimistic lock conflict"

MutateCopy(op, s, q) ==
    IF op = "replenish" THEN StockItem_Replenish(s, q) ELSE Mutate(op, s, q)

GetByID(w) ==
    /\ tx[w].pc = "start"
    /\ tx' = [tx EXCEPT ![w].pc = "read", ![w].copy = row.item,
                        ![w].readVersion = row.version]
    /\ UNCHANGED row

\* The mutator runs on the caller's copy; an error ends the operation.
ApplyMutator(w) ==
    /\ tx[w].pc = "read"
    /\ LET r == MutateCopy(tx[w].op, tx[w].copy, tx[w].q)
       IN  tx' = [tx EXCEPT ![w].pc = IF r.err = Nil THEN "mutated" ELSE "done",
                            ![w].copy = r.item, ![w].err = r.err]
    /\ UNCHANGED row

Update(w) ==
    /\ tx[w].pc = "mutated"
    /\ tx[w].mode = "Update"
    /\ row' = [row EXCEPT !.item = tx[w].copy, !.version = @ + 1]
    /\ tx' = [tx EXCEPT ![w].pc = "done"]

UpdateWithLock(w) ==
    /\ tx[w].pc = "mutated"
    /\ tx[w].mode = "UpdateWithLock"
    /\ IF row.version = tx[w].readVersion
       THEN /\ row' = [row EXCEPT !.item = tx[w].copy, !.version = @ + 1]
            /\ tx' = [tx EXCEPT ![w].pc = "done"]
       ELSE /\ tx' = [tx EXCEPT ![w].pc = "done", ![w].err = ErrConflict]
            /\ UNCHANGED row

RepoTx(op, q, mode) ==
    [pc |-> "start", op |-> op, q |-> q, mode |-> mode,
     copy |-> NewStockItem(0, 0), readVersion |-> 0, err |-> Nil]

\* A stored row any sequence of mutators can have produced, and one operation
\* per worker about to run.
RepoInit ==
    /\ \E h \in 0..MaxOnHand, r \in 0..MaxOnHand :
          /\ r <= h
          /\ LET s == [NewStockItem(0, 0) EXCEPT !.QuantityOnHand = h,
                                                 !.QuantityReserved = r]
             IN  row = [item |-> s, version |-> 1, start |-> s]
    /\ tx \in [RepoWorkers -> {RepoTx(op, q, m) : op \in RepoOps, q \in 1..MaxQty,
                                                   m \in RepoModes}]

RepoIdle ==
    /\ row = [item |-> NewStockItem(0, 0), version |-> 1, start |-> NewStockItem(0, 0)]
    /\ tx = [w \in RepoWorkers |-> RepoTx("reserve", 1, "Update")]

\* The two operations run one after the other, first a then b: the final item
\* and each operation's error.  An operation that ended in a conflict wrote
\* nothing and is left to its caller to retry.
Serial(a, b) ==
    LET run(w, s) == IF tx[w].err = ErrConflict THEN Result(ErrConflict, s)
                     ELSE MutateCopy(tx[w].op, s, tx[w].q)
        ra == run(a, row.start)
        rb == run(b, ra.item)
    IN  [item |-> rb.item, errA |-> ra.err, errB |-> rb.err]

---------------------------------------------------------------------------
(* Event consumer (spec 4.E) over the IdempotencyStore port                  *)
(* (internal/application/port/event_consumer.go).  A delivery is handled in  *)
(* one transaction: IsProcessed, dispatch to the coordinator, MarkProcessed, *)
(* commit, acknowledge.  processed_events has the unique key                 *)
(* (event_id, topic): an insert of a key already there fails and aborts the  *)
(* transaction, and the unacknowledged message is delivered again.  The      *)
(* topics modelled are order.created and order.cancelled.                    *)

MaxDeliveries == 4

ConsumerIds == {1, 2}
EventIds == {"E1", "E2"}
TopicOrderCreated == "order.created"
TopicOrderCancelled == "order.cancelled"
Topics == {TopicOrderCreated, TopicOrderCancelled}
Msgs == EventIds \X Topics

\* The payload of an event: its order and, for order.created, the plan the
\* allocator drew for its basket.
OrderOf(e) == IF e = "E1" THEN "O1" ELSE "O2"
PlanOf(e) == IF e = "E1" THEN <<ReservationItem("S1", 1)>>
             ELSE <<ReservationItem("S1", 1), ReservationItem("S2", MaxQty)>>

\* IsProcessed(ctx, eventID): the lookup has the event id alone.
IsProcessed(store, eventID) == \E rec \in store : rec[1] = eventID

\* Mutant: the record is not written.
MarkProcessed_Lost(store, eventID, topic) == store

\* MarkProcessed(ctx, eventID, topic)
MarkProcessed(store, eventID, topic) == store \cup {<<eventID, topic>>}

\* Deliveries made so far, over all messages.
RECURSIVE SumOver(_, _)
SumOver(f, S) ==
    IF S = {} THEN 0
    ELSE LET x == CHOOSE y \in S : TRUE IN f[x] + SumOver(f, S \ {x})

\* The bus delivers a message, for the first time or again; the handler opens
\* its transaction and asks the store whether the event was processed.
Deliver(c, m) ==
    /\ consumers[c].pc = "idle"
    /\ SumOver(delivered, Msgs) < MaxDeliveries
    /\ delivered' = [delivered EXCEPT ![m] = @ + 1]
    /\ consumers' = [consumers EXCEPT ![c] =
                        [pc |-> "handling", msg |-> m,
                         seen |-> IsProcessed(processed, m[1])]]
    /\ UNCHANGED <<processed, effects, coordVars>>

\* Already processed: commit and acknowledge without side effect.
Skip(c) ==
    /\ consumers[c].pc = "handling"
    /\ consumers[c].seen
    /\ consumers' = [consumers EXCEPT ![c].pc = "idle"]
    /\ UNCHANGED <<processed, delivered, effects, coordVars>>

\* The insert of the idempotency record fails on the unique key: the
\* transaction aborts, nothing is committed and nothing acknowledged.
AbortOnDuplicate(c) ==
    /\ consumers[c].pc = "handling"
    /\ ~consumers[c].seen
    /\ consumers[c].msg \in processed
    /\ consumers' = [consumers EXCEPT ![c].pc = "idle"]
    /\ UNCHANGED <<processed, delivered, effects, coordVars>>

Committed(c) ==
    /\ processed' = MarkProcessed(processed, consumers[c].msg[1], consumers[c].msg[2])
    /\ effects' = [effects EXCEPT ![consumers[c].msg] = @ + 1]
    /\ consumers' = [consumers EXCEPT ![c].pc = "idle"]
    /\ UNCHANGED delivered

\* order.created -> Reserve.  A shortage is a business outcome
\* (reservation_failed): no reservation, and the event is processed.
HandleOrderCreated(c) ==
    /\ consumers[c].pc = "handling"
    /\ ~consumers[c].seen
    /\ consumers[c].msg \notin processed
    /\ consumers[c].msg[2] = TopicOrderCreated
    /\ Coordinator_Reserve(OrderOf(consumers[c].msg[1]), PlanOf(consumers[c].msg[1]),
                           now + 1)
    /\ Committed(c)

\* All active reservations of the order released in the one transaction; a
\* failed release aborts it.
RECURSIVE ReleaseAll(_, _, _, _)
ReleaseAll(order, i, table, rs) ==
    IF i > Len(rs) THEN [ok |-> TRUE, table |-> table, rs |-> rs]
    ELSE IF rs[i].OrderID # order \/ rs[i].Status \notin ActiveStatuses
        THEN ReleaseAll(order, i + 1, table, rs)
    ELSE LET rr == Reservation_Release(rs[i], now)
             ap == ApplyItems("release", rs[i].Items, 1, table)
         IN  IF rr.err # Nil \/ ap.failedAt # 0
             THEN [ok |-> FALSE, table |-> table, rs |-> rs]
             ELSE ReleaseAll(order, i + 1, ap.table, [rs EXCEPT ![i] = rr.r])

\* order.cancelled -> Release(reason = "order_cancelled") on every active
\* reservation of the order.
HandleOrderCancelled(c) ==
    /\ consumers[c].pc = "handling"
    /\ ~consumers[c].seen
    /\ consumers[c].msg \notin processed
    /\ consumers[c].msg[2] = TopicOrderCancelled
    /\ LET done == ReleaseAll(OrderOf(consumers[c].msg[1]), 1, stockItems, reservations)
       IN  /\ done.ok
           /\ stockItems' = done.table
           /\ reservations' = done.rs
           /\ CoordDone("Release", 0, 0, FALSE, Nil)
    /\ Committed(c)

ConsumerInit ==
    /\ processed = {}
    /\ consumers = [c \in ConsumerIds |->
                       [pc |-> "idle", msg |-> <<"E1", TopicOrderCreated>>, seen |-> FALSE]]
    /\ delivered = [m \in Msgs |-> 0]
    /\ effects = [m \in Msgs |-> 0]

ConsumerIdle == ConsumerInit

\* The stock the consumed orders draw on: items replenished to some level.
ConsumerStockInit ==
    /\ \E h \in 0..MaxOnHand :
          stockItems = [s \in StockIds |->
                           [NewStockItem(0, 0) EXCEPT !.QuantityOnHand = h]]
    /\ reservations = <<>>
    /\ coordLast = CoordOutcome("New", 0, 0, 0, FALSE, Nil)

---------------------------------------------------------------------------
(* Outbox publisher (internal/infrastructure/kafka/producer/outbox_publisher.go) *)
(* A processing loop polls, and on each poll runs ProcessPendingEvents:     *)
(* fetchPendingEntries, then for every fetched entry publishEntry and, on    *)
(* success, markAsPublished, on failure recordPublishError.  The steps of    *)
(* one loop interleave with those of the other at every send and every       *)
(* statement.  fetchPendingEntries runs its SELECT ... FOR UPDATE SKIP       *)
(* LOCKED on the pool outside a transaction: its row locks end with the      *)
(* statement, so one loop's fetched rows are not locked while it sends them. *)
(* MaxRetries and BatchSize are the OutboxConfig the publisher runs with.    *)

MaxEntries == 2
MaxRetries == 2
BatchSize == 2

Loops == {1, 2}

\* Deliveries the bus records: with no failing statement a loop sends an entry
\* at most once, so this many hold every delivery of a run without failures.
MaxBus == Cardinality(Loops) * MaxEntries
Aggregates == {"R1", "R2"}

OutboxEntry(aggregateID, createdAt) ==
    [AggregateID |-> aggregateID, CreatedAt |-> createdAt,
     PublishedAt |-> NilTime, RetryCount |-> 0]

\* A domain transaction inserts a row.
Enqueue(agg) ==
    /\ Len(outbox) < MaxEntries
    /\ outbox' = Append(outbox, OutboxEntry(agg, now))
    /\ UNCHANGED <<bus, pub>>

\* Mutant: the WHERE clause selects published rows.
Pending_Published(table) ==
    {i \in 1..Len(table) : table[i].PublishedAt # NilTime}

\* WHERE published_at IS NULL AND retry_count < MaxRetries
Pending(table) ==
    {i \in 1..Len(table) :
        table[i].PublishedAt = NilTime /\ table[i].RetryCount < MaxRetries}

\* ORDER BY created_at ASC LIMIT limit: the results the query can return, rows
\* of equal created_at in either order.
fetchPendingEntries(table, limit) ==
    LET P == Pending(table)
        n == Min(limit, Cardinality(P))
    IN  {b \in [1..n -> P] :
            /\ \A i, j \in 1..n : i < j => b[i] # b[j]
            /\ \A i, j \in 1..n : i < j => table[b[i]].CreatedAt <= table[b[j]].CreatedAt
            /\ \A k \in P : (\A i \in 1..n : b[i] # k) =>
                  \A i \in 1..n : table[b[i]].CreatedAt <= table[k].CreatedAt}

\* ProcessPendingEvents up to its loop over the entries; an empty result
\* returns at once.
Fetch(w) ==
    /\ pub[w].pc = "idle"
    /\ \E b \in fetchPendingEntries(outbox, BatchSize) :
          /\ Len(b) > 0
          /\ pub' = [pub EXCEPT ![w] = [pc |-> "publish", batch |-> b]]
    /\ UNCHANGED <<outbox, bus>>

\* Mutant: a failed publishEntry is followed by markAsPublished too.
AfterPublish_AlwaysMark(sent) == "mark"

\* The loop body after publishEntry: recordPublishError and continue on an
\* error, markAsPublished otherwise.
AfterPublish(sent) == IF sent THEN "mark" ELSE "record"

\* publishEntry on the entry at the head of the batch: SendMessage delivers the
\* message or returns an error (an envelope that does not marshal is an error
\* too).
PublishEntry(w, sent) ==
    /\ pub[w].pc = "publish"
    /\ sent => Len(bus) < MaxBus
    /\ bus' = IF sent THEN Append(bus, Head(pub[w].batch)) ELSE bus
    /\ pub' = [pub EXCEPT ![w].pc = AfterPublish(sent)]
    /\ UNCHANGED outbox

\* The loop moves to the next entry of the batch, or ends the batch.
NextEntry(w) ==
    pub' = [pub EXCEPT ![w] = [pc |-> IF Len(Tail(pub[w].batch)) = 0
                                      THEN "idle" ELSE "publish",
                               batch |-> Tail(pub[w].batch)]]

\* UPDATE outbox SET published_at = NOW() WHERE id = $1; a failed statement is
\* logged and the loop goes on.
markAsPublished(w, dbOk) ==
    /\ pub[w].pc = "mark"
    /\ outbox' = IF dbOk
                 THEN [outbox EXCEPT ![Head(pub[w].batch)].PublishedAt = {now}]
                 ELSE outbox
    /\ NextEntry(w)
    /\ UNCHANGED bus

\* recordPublishError (its body is not in the source; spec 4.D (e)): increments
\* retry_count and records last_error.
recordPublishError(w, dbOk) ==
    /\ pub[w].pc = "record"
    /\ outbox' = IF dbOk
                 THEN [outbox EXCEPT ![Head(pub[w].batch)].RetryCount = @ + 1]
                 ELSE outbox
    /\ NextEntry(w)
    /\ UNCHANGED bus

OutboxInit ==
    /\ outbox = <<>>
    /\ bus = <<>>
    /\ pub = [w \in Loops |-> [pc |-> "idle", batch |-> <<>>]]

OutboxIdle == OutboxInit

\* An outbox that transactions filled before the publisher runs: rows in
\* insertion order, none published, none retried.
DrainInit ==
    /\ \E n \in 1..MaxEntries :
          \E aggs \in [1..n -> Aggregates], at \in [1..n -> Time] :
             /\ \A i, j \in 1..n : i < j => at[i] <= at[j]
             /\ outbox = [i \in 1..n |-> OutboxEntry(aggs[i], at[i])]
             /\ now = at[n]
    /\ bus = <<>>
    /\ pub = [w \in Loops |-> [pc |-> "idle", batch |-> <<>>]]

\* Position of the first delivery of entry i on the bus, 0 when not delivered.
FirstOnBus(i) ==
    IF \E k \in 1..Len(bus) : bus[k] = i
    THEN CHOOSE k \in 1..Len(bus) : bus[k] = i /\ \A l \in 1..(k - 1) : bus[l] # i
    ELSE 0

---------------------------------------------------------------------------
(* Publisher lifecycle: Start, processLoop and Stop of the OutboxPublisher.  *)
(* Start launches processLoop, which is processing loop 1 of the outbox      *)
(* above.  processLoop waits in a select on stopCh, ctx.Done() and the       *)
(* ticker's channel; when more than one of them is ready Go's select takes   *)
(* any one of the ready cases.  The ticker's channel holds one tick; a tick  *)
(* that fires while the loop is inside ProcessPendingEvents waits there.     *)
(* Stop closes stopCh, waits for the loop (wg.Wait) or for its own ctx to be *)
(* done, and then closes the producer.  SendMessage on a closed producer     *)
(* delivers nothing.  SendMessage takes no ctx; the database calls take the  *)
(* loop's ctx.                                                                *)

TheLoop == 1

LifeNew ==
    [stopped |-> FALSE,       \* p.stopped
     stopCh |-> "open",       \* p.stopCh
     ctxDone |-> FALSE,       \* the ctx Start handed to processLoop
     tick |-> FALSE,          \* a tick waits in ticker.C
     loop |-> "none",         \* processLoop: none, running, exited
     stop |-> "idle",         \* Stop: idle, waiting, closing, returned
     deadline |-> FALSE,      \* the ctx of Stop is done
     producer |-> "open",     \* p.producer
     start |-> "idle",        \* Start: idle, checked (past its test of p.stopped)
     refused |-> FALSE,       \* a Start has returned "publisher has been stopped"
     stopAgain |-> FALSE,     \* a further Stop has returned nil at its test
     timedOut |-> FALSE]      \* Stop took case <-ctx.Done()

LifeInit == life = LifeNew
LifeIdle == life = LifeNew

\* processLoop is in its select: it runs and is not inside ProcessPendingEvents.
InSelect == life.loop = "running" /\ pub[TheLoop].pc = "idle"

\* Start under p.mu: p.stopped is false and the mutex is released.  The model
\* has one processLoop, so Start is called once while none was launched.
StartCheck ==
    /\ life.start = "idle"
    /\ life.loop = "none"
    /\ ~life.stopped
    /\ life' = [life EXCEPT !.start = "checked"]
    /\ UNCHANGED outboxVars

\* Start under p.mu: p.stopped is true, the error is returned.
StartRefused ==
    /\ life.start = "idle"
    /\ life.stopped
    /\ ~life.refused
    /\ life' = [life EXCEPT !.refused = TRUE]
    /\ UNCHANGED outboxVars

\* Start after the mutex is released: wg.Add(1) and go processLoop(ctx).
StartLaunch ==
    /\ life.start = "checked"
    /\ life' = [life EXCEPT !.start = "idle", !.loop = "running"]
    /\ UNCHANGED outboxVars

\* The ticker fires; its channel keeps one tick until the loop receives it.
TickerFires ==
    /\ life.loop = "running"
    /\ ~life.tick
    /\ life' = [life EXCEPT !.tick = TRUE]
    /\ UNCHANGED outboxVars

\* The ctx of processLoop is cancelled.
CancelLoopCtx ==
    /\ life.loop = "running"
    /\ ~life.ctxDone
    /\ life' = [life EXCEPT !.ctxDone = TRUE]
    /\ UNCHANGED outboxVars

\* select takes case <-ticker.C and ProcessPendingEvents fetches a batch; the
\* query runs with the loop's ctx and fails once that is cancelled.
SelectTickBatch ==
    /\ InSelect
    /\ life.tick
    /\ ~life.ctxDone
    /\ life' = [life EXCEPT !.tick = FALSE]
    /\ Fetch(TheLoop)

\* select takes case <-ticker.C and ProcessPendingEvents returns at once: the
\* fetch failed or found nothing.
SelectTickNothing ==
    /\ InSelect
    /\ life.tick
    /\ life' = [life EXCEPT !.tick = FALSE]
    /\ UNCHANGED outboxVars

\* select takes case <-p.stopCh or case <-ctx.Done(): the loop returns, and
\* its deferred wg.Done() and ticker.Stop() run.
SelectStop ==
    /\ InSelect
    /\ life.stopCh = "closed" \/ life.ctxDone
    /\ life' = [life EXCEPT !.loop = "exited", !.tick = FALSE]
    /\ UNCHANGED outboxVars

\* publishEntry inside the loop's batch; nothing is delivered by a closed
\* producer.
LoopPublishEntry(sent) ==
    /\ life.loop = "running"
    /\ sent => life.producer = "open"
    /\ PublishEntry(TheLoop, sent)
    /\ UNCHANGED life

\* The statements run with the loop's ctx and fail once that is cancelled.
LoopMarkAsPublished(dbOk) ==
    /\ life.loop = "running"
    /\ dbOk => ~life.ctxDone
    /\ markAsPublished(TheLoop, dbOk)
    /\ UNCHANGED life

LoopRecordPublishError(dbOk) ==
    /\ life.loop = "running"
    /\ dbOk => ~life.ctxDone
    /\ recordPublishError(TheLoop, dbOk)
    /\ UNCHANGED life

\* A further Stop under p.mu: p.stopped is true, nil is returned.
StopAgain ==
    /\ life.stopped
    /\ ~life.stopAgain
    /\ life' = [life EXCEPT !.stopAgain = TRUE]
    /\ UNCHANGED outboxVars

\* Stop up to its wait.
StopBegin ==
    /\ life.stop = "idle"
    /\ ~life.stopped
    /\ life' = [life EXCEPT !.stopped = TRUE, !.stopCh = "closed", !.stop = "waiting"]
    /\ UNCHANGED outboxVars

\* The ctx passed to Stop reaches its deadline.
StopDeadline ==
    /\ life.stop = "waiting"
    /\ ~life.deadline
    /\ life' = [life EXCEPT !.deadline = TRUE]
    /\ UNCHANGED outboxVars

\* case <-done: wg.Wait() returned, no processLoop is running.
StopDrained ==
    /\ life.stop = "waiting"
    /\ life.loop # "running"
    /\ life' = [life EXCEPT !.stop = "closing"]
    /\ UNCHANGED outboxVars

\* case <-ctx.Done(): the wait is given up.
StopTimedOut ==
    /\ life.stop = "waiting"
    /\ life.deadline
    /\ life' = [life EXCEPT !.stop = "closing", !.timedOut = TRUE]
    /\ UNCHANGED outboxVars

\* p.producer.Close(), and Stop returns.
StopCloseProducer ==
    /\ life.stop = "closing"
    /\ life' = [life EXCEPT !.producer = "closed", !.stop = "returned"]
    /\ UNCHANGED outboxVars

---------------------------------------------------------------------------
(* LowStockAlert (internal/domain/entity/low_stock_alert.go).  An alert's    *)
(* ID is its index in the table; the constructor's checks for empty ids     *)
(* never fail for the ids of the model.                                      *)

AlertStatusActive == "ACTIVE"
AlertStatusAcknowledged == "ACKNOWLEDGED"
AlertStatusResolved == "RESOLVED"
ErrAlertAlreadyResolved == "alert has already been resolved"

Users == {"u1"}
\* A nil *string is the empty set, a set pointer the singleton of its value.
NilUser == {}

NewLowStockAlert(stockItemID, currentQuantity, reorderPoint) ==
    [StockItemID |-> stockItemID, CurrentQuantity |-> currentQuantity,
     ReorderPoint |-> reorderPoint, Status |-> AlertStatusActive,
     AcknowledgedBy |-> NilUser, AcknowledgedAt |-> NilTime, ResolvedAt |-> NilTime]

AlertResult(err, a) == [err |-> err, alert |-> a]

LowStockAlert_Acknowledge(a, userID, t) ==
    IF a.Status = AlertStatusResolved THEN AlertResult(ErrAlertAlreadyResolved, a)
    ELSE AlertResult(Nil, [a EXCEPT !.Status = AlertStatusAcknowledged,
                                    !.AcknowledgedBy = {userID},
                                    !.AcknowledgedAt = {t}])

\* Mutant: Resolve without the check of the status.
LowStockAlert_Resolve_NoGuard(a, t) ==
    AlertResult(Nil, [a EXCEPT !.Status = AlertStatusResolved, !.ResolvedAt = {t}])

LowStockAlert_Resolve(a, t) ==
    IF a.Status = AlertStatusResolved THEN AlertResult(ErrAlertAlreadyResolved, a)
    ELSE AlertResult(Nil, [a EXCEPT !.Status = AlertStatusResolved, !.ResolvedAt = {t}])

StockItem_IsLowStock(s) == AvailableQuantity(s) <= s.ReorderPoint

(* Low-stock detector (spec 4.F; not in the source): runs in the transaction *)
(* of every committed ledger mutation, on the post-image of the stock item.  *)
(* The row lock of the mutation serialises the runs for one stock item.      *)

MaxAlerts == 2
OpenStatuses == {AlertStatusActive, AlertStatusAcknowledged}

\* Mutant: only ACTIVE alerts count as non-resolved.
HasOpenAlert_ActiveOnly(table, sid) ==
    \E i \in 1..Len(table) :
        table[i].StockItemID = sid /\ table[i].Status = AlertStatusActive

HasOpenAlert(table, sid) ==
    \E i \in 1..Len(table) :
        table[i].StockItemID = sid /\ table[i].Status # AlertStatusResolved

ResolveOpen(table, sid, t) ==
    [i \in 1..Len(table) |->
        IF table[i].StockItemID = sid /\ table[i].Status \in OpenStatuses
        THEN LowStockAlert_Resolve(table[i], t).alert
        ELSE table[i]]

Detect(table, sid, post, t) ==
    IF StockItem_IsLowStock(post)
    THEN IF HasOpenAlert(table, sid) THEN table
         ELSE Append(table, NewLowStockAlert(sid, AvailableQuantity(post),
                                             post.ReorderPoint))
    ELSE ResolveOpen(table, sid, t)

AlertCall(op, id, err, pre) == [op |-> op, id |-> id, err |-> err, pre |-> pre]
NoAlertCall == AlertCall("Detect", 0, Nil, NewLowStockAlert("", 0, 0))

AlertOps == {"replenish", "reserve", "release", "fulfill"}

\* A ledger mutation that commits, with the detector run of its transaction.
LedgerMutation(sid, op, q) ==
    LET r == MutateCopy(op, stockItems[sid], q)
        next == Detect(alerts, sid, r.item, now)
    IN  /\ r.err = Nil
        /\ r.item.QuantityOnHand <= MaxOnHand
        /\ Len(next) <= MaxAlerts
        /\ stockItems' = [stockItems EXCEPT ![sid] = r.item]
        /\ alerts' = next
        /\ alertLast' = NoAlertCall
        /\ UNCHANGED <<reservations, coordLast>>

AcknowledgeAlert(i, userID) ==
    /\ i \in 1..Len(alerts)
    /\ LET r == LowStockAlert_Acknowledge(alerts[i], userID, now)
       IN  /\ alerts' = [alerts EXCEPT ![i] = r.alert]
           /\ alertLast' = AlertCall("Acknowledge", i, r.err, alerts[i])
    /\ UNCHANGED coordVars

ResolveAlert(i) ==
    /\ i \in 1..Len(alerts)
    /\ LET r == LowStockAlert_Resolve(alerts[i], now)
       IN  /\ alerts' = [alerts EXCEPT ![i] = r.alert]
           /\ alertLast' = AlertCall("Resolve", i, r.err, alerts[i])
    /\ UNCHANGED coordVars

\* Stock items as NewStockItem leaves them, with no alert yet.
AlertInit ==
    /\ \E rp \in [StockIds -> 0..MaxReorder] :
          stockItems = [s \in StockIds |-> NewStockItem(rp[s], 0)]
    /\ reservations = <<>>
    /\ coordLast = CoordOutcome("New", 0, 0, 0, FALSE, Nil)
    /\ alerts = <<>>
    /\ alertLast = NoAlertCall

AlertIdle ==
    /\ alerts = <<>>
    /\ alertLast = NoAlertCall

(* Retry timing of the outbox publisher (messaging output.md: processLoop,   *)
(* publishEntry, handlePublishError, calculateBackoff).  One processing      *)
(* loop; the clock of this component counts units of 50 ms.  The ticker      *)
(* channel holds one tick: a tick that fires while the loop is busy waits    *)
(* for it.                                                                    *)

PollInterval == 2
RetryBackoff == 2
MaxBackoff == 200
MaxClock == 6

RECURSIVE Pow2(_)
Pow2(n) == IF n = 0 THEN 1 ELSE 2 * Pow2(n - 1)

\* Mutant: the comparison with MaxBackoff is left out.
calculateBackoff_NoCap(retryCount) == RetryBackoff * Pow2(retryCount)

calculateBackoff(retryCount) == Min(RetryBackoff * Pow2(retryCount), MaxBackoff)

NoFailure == {}

\* Time passes; the ticker fires at every multiple of PollInterval.
BackoffClock ==
    /\ backoff.clock < MaxClock
    /\ backoff' = [backoff EXCEPT
                      !.clock = @ + 1,
                      !.tick = @ \/ ((backoff.clock + 1) % PollInterval = 0)]
    /\ UNCHANGED outboxVars

\* case <-ticker.C: ProcessPendingEvents fetches a batch.
PollBatch ==
    /\ backoff.tick
    /\ Fetch(TheLoop)
    /\ backoff' = [backoff EXCEPT !.tick = FALSE]

\* case <-ticker.C: ProcessPendingEvents finds no pending entry and returns.
PollNothing ==
    /\ backoff.tick
    /\ pub[TheLoop].pc = "idle"
    /\ Pending(outbox) = {}
    /\ backoff' = [backoff EXCEPT !.tick = FALSE]
    /\ UNCHANGED outboxVars

\* publishEntry; when SendMessage fails, handlePublishError computes the
\* backoff of the entry's retry count, logs it and returns the error.
BackoffPublishEntry(sent) ==
    /\ PublishEntry(TheLoop, sent)
    /\ LET id == Head(pub[TheLoop].batch)
           wait == calculateBackoff(outbox[id].RetryCount)
       IN  backoff' = IF sent THEN backoff
                      ELSE [backoff EXCEPT
                              !.lastFail[id] = {[at |-> backoff.clock, wait |-> wait]}]

BackoffMarkAsPublished(dbOk) ==
    /\ markAsPublished(TheLoop, dbOk)
    /\ UNCHANGED backoff

BackoffRecordPublishError(dbOk) ==
    /\ recordPublishError(TheLoop, dbOk)
    /\ UNCHANGED backoff

BackoffInit ==
    backoff = [clock |-> 0, tick |-> FALSE, lastFail |-> [i \in 1..MaxEntries |-> NoFailure]]

BackoffIdle == BackoffInit

(* JWT middleware key cache (internal/interfaces/http/middleware/             *)
(* jwt_middleware.go): publicKeys maps a key id to a public key under a       *)
(* sync.RWMutex.  refreshJWKS fetches the JWKS document, takes the write      *)
(* lock and stores the keys one by one; getPublicKey holds the read lock for  *)
(* its whole body, so it runs only while no refresh holds the write lock.     *)
(* A public key is represented by its modulus string; a modulus that is not   *)
(* base64 makes parseJWK fail.                                                *)

MaxKeys == 2
KeyIds == {"k1", "k2"}
DefaultKid == "default"
BadBase64 == "!"
Moduli == {BadBase64, "n1"}
NoKey == ""
ErrUnknownKeyID == "unknown key ID"

JWK(kid, kty, alg, n) == [Kid |-> kid, Kty |-> kty, Alg |-> alg, N |-> n]

JWKs ==
    {JWK(kid, ty[1], ty[2], n) :
        kid \in KeyIds, ty \in {<<"RSA", "RS256">>, <<"EC", "RS256">>, <<"RSA", "ES256">>},
        n \in Moduli}

\* The documents the JWKS endpoint can return.
JWKSDocs == UNION {[1..n -> JWKs] : n \in 0..MaxKeys}

parseJWK(key) ==
    IF key.N = BadBase64 THEN [key |-> NoKey, err |-> "illegal base64 data"]
    ELSE [key |-> key.N, err |-> Nil]

\* A key that refreshJWKS stores.
StoredByRefresh(key) ==
    /\ key.Kty = "RSA"
    /\ key.Alg = "RS256"
    /\ parseJWK(key).err = Nil

MapPut(m, k, v) == [x \in DOMAIN m \cup {k} |-> IF x = k THEN v ELSE m[x]]

getPublicKey(m, kidIn) ==
    LET kid == IF kidIn = "" THEN DefaultKid ELSE kidIn
    IN  IF kid \in DOMAIN m THEN [key |-> m[kid], err |-> Nil]
        ELSE IF DefaultKid \in DOMAIN m THEN [key |-> m[DefaultKid], err |-> Nil]
        ELSE [key |-> NoKey, err |-> ErrUnknownKeyID]

\* NewJWTMiddleware before its first refreshJWKS: the configured key, if any,
\* under "default".
NewJWTMiddleware(static) ==
    [publicKeys |-> IF static THEN [x \in {DefaultKid} |-> "n0"] ELSE <<>>,
     static |-> static,
     mu |-> "free",
     keys |-> <<>>,
     jwks |-> <<>>,
     refreshed |-> FALSE,
     last |-> [kid |-> "", key |-> NoKey, err |-> Nil]]

\* refreshJWKS: the GET returned 200 with a document that decodes; m.mu.Lock().
RefreshLock(doc) ==
    /\ jwt.mu = "free"
    /\ jwt' = [jwt EXCEPT !.mu = "writer", !.keys = doc, !.jwks = doc]

\* One iteration of the loop over jwks.Keys.
RefreshStore ==
    /\ jwt.mu = "writer"
    /\ Len(jwt.keys) > 0
    /\ LET key == Head(jwt.keys)
       IN  jwt' = [jwt EXCEPT
                     !.keys = Tail(@),
                     !.publicKeys = IF StoredByRefresh(key)
                                    THEN MapPut(@, key.Kid, parseJWK(key).key)
                                    ELSE @]

\* refreshJWKS returns; the deferred m.mu.Unlock() runs.
RefreshUnlock ==
    /\ jwt.mu = "writer"
    /\ Len(jwt.keys) = 0
    /\ jwt' = [jwt EXCEPT !.mu = "free", !.refreshed = TRUE]

\* validateToken looks up the key of a token's kid; the middleware serves
\* requests once NewJWTMiddleware has returned, after its first refresh.
GetPublicKey(kid) ==
    /\ jwt.refreshed
    /\ jwt.mu = "free"
    /\ LET r == getPublicKey(jwt.publicKeys, kid)
       IN  jwt' = [jwt EXCEPT !.last = [kid |-> kid, key |-> r.key, err |-> r.err]]

JwtInit == \E static \in BOOLEAN : jwt = NewJWTMiddleware(static)

JwtIdle == jwt = NewJWTMiddleware(FALSE)

(* HTTP router and RBAC middleware (internal/interfaces/http/router/         *)
(* router.go, internal/interfaces/http/middleware/rbac_middleware.go).        *)
(* A URL path is the sequence of its segments and a segment the sequence of   *)
(* its hyphen-separated words: /api/v1/stock-items/a1 is                      *)
(* <<<<"api">>, <<"v1">>, <<"stock", "items">>, <<"a1">>>>.  No word of the   *)
(* model begins with another one, so strings.Contains(path, "/w") is "some    *)
(* segment begins with the word w" and strings.HasPrefix compares segments,   *)
(* the last one of the prefix word by word.                                   *)

Param == <<"{}">>
ApiV1 == << <<"api">>, <<"v1">> >>

Route(method, pattern) == [Method |-> method, Pattern |-> pattern]

\* The /api/v1/ routes that router.New registers, each behind JWT and RBAC.
Routes ==
    << Route("POST",   ApiV1 \o << <<"products">> >>),
       Route("GET",    ApiV1 \o << <<"products">> >>),
       Route("GET",    ApiV1 \o << <<"products">>, Param >>),
       Route("PUT",    ApiV1 \o << <<"products">>, Param >>),
       Route("DELETE", ApiV1 \o << <<"products">>, Param >>),
       Route("GET",    ApiV1 \o << <<"products">>, Param, <<"stock">> >>),
       Route("POST",   ApiV1 \o << <<"warehouses">> >>),
       Route("GET",    ApiV1 \o << <<"warehouses">> >>),
       Route("GET",    ApiV1 \o << <<"warehouses">>, Param >>),
       Route("PUT",    ApiV1 \o << <<"warehouses">>, Param >>),
       Route("DELETE", ApiV1 \o << <<"warehouses">>, Param >>),
       Route("POST",   ApiV1 \o << <<"stock", "items">> >>),
       Route("GET",    ApiV1 \o << <<"stock", "items">> >>),
       Route("GET",    ApiV1 \o << <<"stock", "items">>, Param >>),
       Route("GET",    ApiV1 \o << <<"stock", "items">>, Param, <<"movements">> >>),
       Route("POST",   ApiV1 \o << <<"reservations">> >>),
       Route("GET",    ApiV1 \o << <<"reservations">>, Param >>),
       Route("POST",   ApiV1 \o << <<"reservations">>, Param, <<"release">> >>),
       Route("POST",   ApiV1 \o << <<"reservations">>, Param, <<"fulfill">> >>),
       Route("GET",    ApiV1 \o << <<"orders">>, Param, <<"reservations">> >>),
       Route("POST",   ApiV1 \o << <<"stock", "movements">>, <<"replenish">> >>),
       Route("GET",    ApiV1 \o << <<"stock", "movements">> >>),
       Route("GET",    ApiV1 \o << <<"alerts">>, <<"low", "stock">> >>) >>

\* Values of a path parameter.
ParamValues == {<<"a1">>, <<"a2">>}

\* The URL path of a request that the ServeMux matches to the pattern.
PathOf(pattern, v) ==
    [i \in 1..Len(pattern) |-> IF pattern[i] = Param THEN v ELSE pattern[i]]

Roles == {"admin", "inventory_manager", "warehouse_staff", "order_service", "read_only"}

RolePermissions ==
    [role \in Roles |->
        CASE role = "admin" ->
                {"product:create", "product:read", "product:update", "product:delete",
                 "warehouse:create", "warehouse:read", "warehouse:update",
                 "warehouse:delete", "stock_item:create", "stock_item:read",
                 "stock:replenish", "reservation:create", "reservation:read",
                 "reservation:fulfill", "reservation:release", "movement:read",
                 "alert:read"}
          [] role = "inventory_manager" ->
                {"product:create", "product:read", "product:update", "warehouse:read",
                 "stock_item:create", "stock_item:read", "stock:replenish",
                 "reservation:read", "reservation:fulfill", "reservation:release",
                 "movement:read", "alert:read"}
          [] role = "warehouse_staff" ->
                {"product:read", "warehouse:read", "stock_item:read", "stock:replenish",
                 "reservation:read", "reservation:fulfill", "movement:read",
                 "alert:read"}
          [] role = "order_service" ->
                {"product:read", "stock_item:read", "reservation:create",
                 "reservation:read", "reservation:fulfill", "reservation:release"}
          [] role = "read_only" ->
                {"product:read", "warehouse:read", "stock_item:read", "reservation:read",
                 "movement:read", "alert:read"}]

\* Slash: the PathPrefix ends with "/".
EndpointPermission(method, prefix, slash, permission) ==
    [Method |-> method, PathPrefix |-> prefix, Slash |-> slash, Permission |-> permission]

EndpointPermissions ==
    << EndpointPermission("POST",   ApiV1 \o << <<"products">> >>, FALSE, "product:create"),
       EndpointPermission("GET",    ApiV1 \o << <<"products">> >>, FALSE, "product:read"),
       EndpointPermission("PUT",    ApiV1 \o << <<"products">> >>, TRUE, "product:update"),
       EndpointPermission("DELETE", ApiV1 \o << <<"products">> >>, TRUE, "product:delete"),
       EndpointPermission("POST",   ApiV1 \o << <<"warehouses">> >>, FALSE, "warehouse:create"),
       EndpointPermission("GET",    ApiV1 \o << <<"warehouses">> >>, FALSE, "warehouse:read"),
       EndpointPermission("PUT",    ApiV1 \o << <<"warehouses">> >>, TRUE, "warehouse:update"),
       EndpointPermission("DELETE", ApiV1 \o << <<"warehouses">> >>, TRUE, "warehouse:delete"),
       EndpointPermission("POST",   ApiV1 \o << <<"stock", "items">> >>, FALSE, "stock_item:create"),
       EndpointPermission("GET",    ApiV1 \o << <<"stock", "items">> >>, FALSE, "stock_item:read"),
       EndpointPermission("POST",   ApiV1 \o << <<"reservations">> >>, FALSE, "reservation:create"),
       EndpointPermission("GET",    ApiV1 \o << <<"reservations">> >>, FALSE, "reservation:read"),
       EndpointPermission("POST",   ApiV1 \o << <<"reservations">> >>, TRUE, "reservation:fulfill"),
       EndpointPermission("POST",   ApiV1 \o << <<"stock", "movements">>, <<"replenish">> >>,
                          FALSE, "stock:replenish"),
       EndpointPermission("GET",    ApiV1 \o << <<"stock", "movements">> >>, FALSE, "movement:read"),
       EndpointPermission("GET",    ApiV1 \o << <<"alerts">> >>, FALSE, "alert:read") >>

\* strings.Contains(path, "/" + word)
Contains(path, word) == \E i \in 1..Len(path) : path[i][1] = word

IsWordPrefix(a, b) == Len(a) <= Len(b) /\ \A k \in 1..Len(a) : a[k] = b[k]

\* strings.HasPrefix(path, prefix), the prefix with a trailing "/" or without.
HasPrefix(path, prefix, slash) ==
    LET n == Len(prefix)
    IN  IF slash
        THEN Len(path) > n /\ \A i \in 1..n : path[i] = prefix[i]
        ELSE /\ Len(path) >= n
             /\ \A i \in 1..(n - 1) : path[i] = prefix[i]
             /\ IsWordPrefix(prefix[n], path[n])

getRequiredPermission(method, path) ==
    IF Contains(path, "release") THEN "reservation:release"
    ELSE IF Contains(path, "fulfill") THEN "reservation:fulfill"
    ELSE IF Contains(path, "stock") /\ method = "GET" THEN "stock_item:read"
    ELSE IF Contains(path, "movements") THEN "movement:read"
    ELSE LET hits == {i \in 1..Len(EndpointPermissions) :
                         /\ EndpointPermissions[i].Method = method
                         /\ HasPrefix(path, EndpointPermissions[i].PathPrefix,
                                      EndpointPermissions[i].Slash)}
         IN  IF hits = {} THEN ""
             ELSE EndpointPermissions[CHOOSE i \in hits : \A j \in hits : i <= j].Permission

hasPermission(roles, permission) ==
    \E i \in 1..Len(roles) :
        roles[i] \in DOMAIN RolePermissions /\ permission \in RolePermissions[roles[i]]

\* RBACMiddleware.Middleware: 403 without calling the handler, or the handler.
Middleware(roles, method, path) ==
    LET required == getRequiredPermission(method, path)
        forbidden == [status |-> 403, invoked |-> FALSE, perm |-> required]
        next == [status |-> 200, invoked |-> TRUE, perm |-> required]
    IN  IF Len(roles) = 0 THEN [forbidden EXCEPT !.perm = ""]
        ELSE IF required = "" THEN next
        ELSE IF ~hasPermission(roles, required) THEN forbidden
        ELSE next

\* The roles claim of a token that passed the JWT middleware; "guest" is a
\* role that RolePermissions does not know.
RoleClaims == {<<>>} \cup {<<r>> : r \in Roles \cup {"guest"}}

NoRequest ==
    [served |-> FALSE, method |-> "", path |-> <<>>, roles |-> <<>>,
     status |-> 0, invoked |-> FALSE, perm |-> ""]

\* A request for a registered route, with a valid token, goes through
\* JWT -> RBAC -> handler.
ServeHTTP(r, v, roles) ==
    LET method == Routes[r].Method
        path == PathOf(Routes[r].Pattern, v)
        out == Middleware(roles, method, path)
    IN  rbac' = [served |-> TRUE, method |-> method, path |-> path, roles |-> roles,
                 status |-> out.status, invoked |-> out.invoked, perm |-> out.perm]

RbacInit == rbac = NoRequest

RbacIdle == RbacInit

(* Reservation allocator (spec 4.B; not in the source): one basket line for  *)
(* a product that is stocked in the warehouses of the snapshot.  The stock   *)
(* item of the product in a warehouse is named by the warehouse.  The        *)
(* allocator reads the snapshot and changes nothing.                          *)

MaxAvail == 5
MaxPriority == 2
MaxRequest == 4

WarehouseIds == <<"W1", "W2", "W3">>
Warehouses == {WarehouseIds[i] : i \in 1..Len(WarehouseIds)}
NoPreference == ""
ErrAllocInsufficientStock == "InsufficientStock"

\* Position of a warehouse id in ascending id order.
IdRank(w) == CHOOSE i \in 1..Len(WarehouseIds) : WarehouseIds[i] = w

Snapshots ==
    [Warehouses -> [Available : 0..MaxAvail, Priority : 1..MaxPriority, IsActive : BOOLEAN]]

\* Step 1: the stock items of the product in active warehouses.
Candidates(snap) == {w \in Warehouses : snap[w].IsActive}

\* Mutant: the priority of the warehouse does not enter the order.
Before_NoPriority(snap, pref, a, b) ==
    LET pa == (a = pref /\ snap[a].Available > 0)
        pb == (b = pref /\ snap[b].Available > 0)
    IN  IF pa # pb THEN pa
        ELSE IF snap[a].Available # snap[b].Available
             THEN snap[a].Available > snap[b].Available
        ELSE IdRank(a) < IdRank(b)

\* Step 2: the preferred warehouse first if it has stock, then priority
\* ascending, then available descending, then warehouse id ascending.
Before(snap, pref, a, b) ==
    LET pa == (a = pref /\ snap[a].Available > 0)
        pb == (b = pref /\ snap[b].Available > 0)
    IN  IF pa # pb THEN pa
        ELSE IF snap[a].Priority # snap[b].Priority
             THEN snap[a].Priority < snap[b].Priority
        ELSE IF snap[a].Available # snap[b].Available
             THEN snap[a].Available > snap[b].Available
        ELSE IdRank(a) < IdRank(b)

RECURSIVE SortCandidates(_, _, _)
SortCandidates(snap, pref, S) ==
    IF S = {} THEN <<>>
    ELSE LET h == CHOOSE a \in S : \A b \in S \ {a} : Before(snap, pref, a, b)
         IN  <<h>> \o SortCandidates(snap, pref, S \ {h})

\* Step 3: assign from the head until the line is satisfied or the
\* candidates are exhausted.
RECURSIVE Assign(_, _, _)
Assign(snap, order, remaining) ==
    IF remaining = 0 \/ Len(order) = 0 THEN <<>>
    ELSE LET w == Head(order)
             take == Min(snap[w].Available, remaining)
             rest == Assign(snap, Tail(order), remaining - take)
         IN  IF take = 0 THEN rest ELSE << <<w, take>> >> \o rest

RECURSIVE PlanTotal(_)
PlanTotal(plan) == IF Len(plan) = 0 THEN 0 ELSE Head(plan)[2] + PlanTotal(Tail(plan))

RECURSIVE TotalAvailable(_, _)
TotalAvailable(snap, S) ==
    IF S = {} THEN 0
    ELSE LET w == CHOOSE x \in S : TRUE
         IN  snap[w].Available + TotalAvailable(snap, S \ {w})

\* A plan, or step 4's InsufficientStock with the requested and the available
\* quantity.
Allocate(snap, quantity, pref) ==
    LET plan == Assign(snap, SortCandidates(snap, pref, Candidates(snap)), quantity)
    IN  IF PlanTotal(plan) = quantity
        THEN [err |-> Nil, plan |-> plan, requested |-> quantity, available |-> 0]
        ELSE [err |-> ErrAllocInsufficientStock, plan |-> <<>>, requested |-> quantity,
              available |-> TotalAvailable(snap, Candidates(snap))]

AllocateLine(quantity, pref) ==
    alloc' = [alloc EXCEPT !.done = TRUE, !.quantity = quantity, !.preferred = pref,
                           !.out = Allocate(alloc.snapshot, quantity, pref)]

NewAlloc(snap) ==
    [snapshot |-> snap, done |-> FALSE, quantity |-> 0, preferred |-> NoPreference,
     out |-> [err |-> Nil, plan |-> <<>>, requested |-> 0, available |-> 0]]

AllocInit == \E snap \in Snapshots : alloc = NewAlloc(snap)

AllocIdle ==
    alloc = NewAlloc([w \in Warehouses |->
                         [Available |-> 0, Priority |-> 1, IsActive |-> TRUE]])

---------------------------------------------------------------------------
(* Reservation events (internal/domain/event) and their outbox rows.  The    *)
(* use cases that write the rows are not in the source (spec 4.B, 4.D): the  *)
(* row of an event carries the event's EventName() and AggregateID(), and     *)
(* publishEntry sends it with the row's aggregate_id as the message key.      *)
(* Reserve writes inventory.stock.reserved, Release and the expiry sweeper    *)
(* write inventory.stock.released, Fulfill writes                             *)
(* inventory.stock.decremented with the id of the stock movement it records.  *)

ReservationIDs == {"R1", "R2", "R3"}
MovementIDs == {"M1", "M2"}
NoMovement == ""

StockReservedEvent(reservationID) ==
    [EventName |-> "inventory.stock.reserved",
     ReservationID |-> reservationID, MovementID |-> NoMovement]

StockReleasedEvent(reservationID) ==
    [EventName |-> "inventory.stock.released",
     ReservationID |-> reservationID, MovementID |-> NoMovement]

StockDecrementedEvent(reservationID, movementID) ==
    [EventName |-> "inventory.stock.decremented",
     ReservationID |-> reservationID, MovementID |-> movementID]

\* AggregateID() of the three event types.
AggregateID(e) ==
    IF e.EventName = "inventory.stock.decremented" THEN e.MovementID
    ELSE e.ReservationID

\* The outbox row of an event; the event is kept with it as the payload.
PublishToOutbox(e) ==
    [EventType |-> e.EventName, AggregateID |-> AggregateID(e), Payload |-> e]

\* Key of the message publishEntry builds from a row.
MessageKey(entry) == entry.AggregateID

EmittedFor(reservationID) ==
    {k \in 1..Len(emitted) : emitted[k].Payload.ReservationID = reservationID}

\* The reservation of this id was created and has not reached a terminal status.
IsHeld(reservationID) ==
    /\ EmittedFor(reservationID) # {}
    /\ \A k \in EmittedFor(reservationID) :
          emitted[k].EventType = "inventory.stock.reserved"

EmitReserved(reservationID) ==
    /\ EmittedFor(reservationID) = {}
    /\ emitted' = Append(emitted, PublishToOutbox(StockReservedEvent(reservationID)))

EmitReleased(reservationID) ==
    /\ IsHeld(reservationID)
    /\ emitted' = Append(emitted, PublishToOutbox(StockReleasedEvent(reservationID)))

\* The movement id is new with every movement.
EmitDecremented(reservationID, movementID) ==
    /\ IsHeld(reservationID)
    /\ \A k \in 1..Len(emitted) : emitted[k].Payload.MovementID # movementID
    /\ emitted' = Append(emitted,
                         PublishToOutbox(StockDecrementedEvent(reservationID, movementID)))

EventInit == emitted = <<>>
EventIdle == EventInit

---------------------------------------------------------------------------
(* calculateBackoff called on retry counts: calc keeps, per retry count, the *)
(* duration returned for it.  Retry counts run past the default MaxRetries   *)
(* of 5 so that the comparison with MaxBackoff decides some of them; the     *)
(* products stay far below the range of time.Duration.                        *)

MaxRetryCount == 8
RetryCounts == 0..MaxRetryCount
NotCalculated == {}

Calculate(retryCount) ==
    /\ calc[retryCount] = NotCalculated
    /\ calc' = [calc EXCEPT ![retryCount] = {calculateBackoff(retryCount)}]

CalcInit == calc = [n \in RetryCounts |-> NotCalculated]
CalcIdle == CalcInit

---------------------------------------------------------------------------
(* Low-stock severity (spec 4.F; only the LowStockSeverity constants are in   *)
(* the source).  The three conditions of the specification, on the available  *)
(* quantity and the reorder point of a post-image; for integers               *)
(* available <= reorder_point/2 is 2 * available <= reorder_point, whether    *)
(* the division is exact or rounds down.                                      *)

MaxPoint == 10

SeverityWarning == "WARNING"
SeverityCritical == "CRITICAL"
SeverityOutOfStock == "OUT_OF_STOCK"
LowStockSeverity == {SeverityWarning, SeverityCritical, SeverityOutOfStock}

SeverityHolds(severity, available, reorderPoint) ==
    CASE severity = SeverityWarning -> 0 < available /\ available <= reorderPoint
      [] severity = SeverityCritical -> 2 * available <= reorderPoint
      [] severity = SeverityOutOfStock -> available = 0

Severities(available, reorderPoint) ==
    {s \in LowStockSeverity : SeverityHolds(s, available, reorderPoint)}

NotClassified ==
    [called |-> FALSE, available |-> 0, reorderPoint |-> 0, severities |-> {}]

\* The detector classifies the post-image of a stock item.
Classify(available, reorderPoint) ==
    sev' = [called |-> TRUE, available |-> available, reorderPoint |-> reorderPoint,
            severities |-> Severities(available, reorderPoint)]

SevInit == sev = NotClassified
SevIdle == SevInit

---------------------------------------------------------------------------
(* Specifications *)

LateIdle == EventIdle /\ CalcIdle /\ SevIdle
OtherIdle == AlertIdle /\ BackoffIdle /\ JwtIdle /\ RbacIdle /\ AllocIdle /\ LateIdle

\* What a step of one component leaves alone.
LedgerFrame ==
    UNCHANGED <<now, resVars, coordVars, repoVars, consumerVars, outboxVars, lifeVars, otherVars>>
ResFrame ==
    UNCHANGED <<now, ledgerVars, coordVars, repoVars, consumerVars, outboxVars, lifeVars, otherVars>>
CoordFrame ==
    UNCHANGED <<now, ledgerVars, resVars, repoVars, consumerVars, outboxVars, lifeVars, otherVars>>
RepoFrame ==
    UNCHANGED <<now, ledgerVars, resVars, coordVars, consumerVars, outboxVars, lifeVars, otherVars>>
ConsumerFrame ==
    UNCHANGED <<now, ledgerVars, resVars, repoVars, outboxVars, lifeVars, otherVars>>
OutboxFrame ==
    UNCHANGED <<now, ledgerVars, resVars, coordVars, repoVars, consumerVars, lifeVars, otherVars>>
LifeFrame ==
    UNCHANGED <<now, ledgerVars, resVars, coordVars, repoVars, consumerVars, otherVars>>
ClockFrame ==
    UNCHANGED <<ledgerVars, resVars, coordVars, repoVars, consumerVars, outboxVars,
                lifeVars, otherVars>>

SpecLedgerInit ==
    /\ now = 0
    /\ LedgerInit /\ ResIdle /\ CoordIdle /\ RepoIdle /\ ConsumerIdle /\ OutboxIdle
    /\ LifeIdle /\ OtherIdle

SpecLedgerNext ==
    \/ \E q \in QtyInputs : Replenish(q) /\ LedgerFrame
    \/ \E q \in QtyInputs : Reserve(q) /\ LedgerFrame
    \/ \E q \in QtyInputs : ReleaseReservation(q) /\ LedgerFrame
    \/ \E q \in QtyInputs : Fulfill(q) /\ LedgerFrame

SpecLedger == SpecLedgerInit /\ [][SpecLedgerNext]_vars

SpecReservationInit ==
    /\ now = 0
    /\ LedgerIdle /\ ResInit /\ CoordIdle /\ RepoIdle /\ ConsumerIdle /\ OutboxIdle
    /\ LifeIdle /\ OtherIdle

SpecReservationNext ==
    \/ Confirm /\ ResFrame
    \/ Release /\ ResFrame
    \/ FulfillReservation /\ ResFrame
    \/ Expire /\ ResFrame
    \/ Tick /\ ClockFrame

SpecReservation == SpecReservationInit /\ [][SpecReservationNext]_vars

SpecCoordInit ==
    /\ now = 0
    /\ LedgerIdle /\ ResIdle /\ CoordInit /\ RepoIdle /\ ConsumerIdle /\ OutboxIdle
    /\ LifeIdle /\ OtherIdle

SpecCoordNext ==
    \/ \E plan \in Plans, e \in {now, now + 1} :
          Coordinator_Reserve("O1", plan, e) /\ CoordFrame
    \/ \E rid \in 1..Len(reservations) : Coordinator_Confirm(rid) /\ CoordFrame
    \/ \E rid \in 1..Len(reservations) : Coordinator_Release(rid) /\ CoordFrame
    \/ \E rid \in 1..Len(reservations) : Coordinator_Fulfill(rid) /\ CoordFrame
    \/ \E rid \in 1..Len(reservations) : Coordinator_Expire(rid) /\ CoordFrame
    \/ \E s \in StockIds, q \in 1..MaxQty : Coordinator_Replenish(s, q) /\ CoordFrame
    \/ Tick /\ ClockFrame

SpecCoord == SpecCoordInit /\ [][SpecCoordNext]_vars

SpecRepoInit ==
    /\ now = 0
    /\ LedgerIdle /\ ResIdle /\ CoordIdle /\ RepoInit /\ ConsumerIdle /\ OutboxIdle
    /\ LifeIdle /\ OtherIdle

SpecRepoNext ==
    \/ \E w \in RepoWorkers : GetByID(w) /\ RepoFrame
    \/ \E w \in RepoWorkers : ApplyMutator(w) /\ RepoFrame
    \/ \E w \in RepoWorkers : Update(w) /\ RepoFrame
    \/ \E w \in RepoWorkers : UpdateWithLock(w) /\ RepoFrame

SpecRepo == SpecRepoInit /\ [][SpecRepoNext]_vars

SpecConsumerInit ==
    /\ now = 0
    /\ LedgerIdle /\ ResIdle /\ ConsumerStockInit /\ RepoIdle /\ ConsumerInit /\ OutboxIdle
    /\ LifeIdle /\ OtherIdle

SpecConsumerNext ==
    \/ \E c \in ConsumerIds, m \in Msgs : Deliver(c, m) /\ ConsumerFrame
    \/ \E c \in ConsumerIds : Skip(c) /\ ConsumerFrame
    \/ \E c \in ConsumerIds : AbortOnDuplicate(c) /\ ConsumerFrame
    \/ \E c \in ConsumerIds : HandleOrderCreated(c) /\ ConsumerFrame
    \/ \E c \in ConsumerIds : HandleOrderCancelled(c) /\ ConsumerFrame

SpecConsumer == SpecConsumerInit /\ [][SpecConsumerNext]_vars

SpecOutboxInit ==
    /\ now = 0
    /\ LedgerIdle /\ ResIdle /\ CoordIdle /\ RepoIdle /\ ConsumerIdle /\ OutboxInit /\ LifeIdle /\ OtherIdle

SpecOutboxNext ==
    \/ \E agg \in Aggregates : Enqueue(agg) /\ OutboxFrame
    \/ \E w \in Loops : Fetch(w) /\ OutboxFrame
    \/ \E w \in Loops, sent \in BOOLEAN : PublishEntry(w, sent) /\ OutboxFrame
    \/ \E w \in Loops, dbOk \in BOOLEAN : markAsPublished(w, dbOk) /\ OutboxFrame
    \/ \E w \in Loops, dbOk \in BOOLEAN : recordPublishError(w, dbOk) /\ OutboxFrame
    \/ Tick /\ ClockFrame

SpecOutbox == SpecOutboxInit /\ [][SpecOutboxNext]_vars

\* No send fails, no statement fails, no entry arrives; every processing loop
\* keeps being scheduled.
SpecDrainInit ==
    /\ LedgerIdle /\ ResIdle /\ CoordIdle /\ RepoIdle /\ ConsumerIdle /\ DrainInit /\ LifeIdle /\ OtherIdle

\* One step of processing loop w when nothing fails.
DrainStep(w) ==
    \/ Fetch(w) /\ OutboxFrame
    \/ PublishEntry(w, TRUE) /\ OutboxFrame
    \/ markAsPublished(w, TRUE) /\ OutboxFrame

SpecDrainNext ==
    \/ \E w \in Loops : Fetch(w) /\ OutboxFrame
    \/ \E w \in Loops : PublishEntry(w, TRUE) /\ OutboxFrame
    \/ \E w \in Loops : markAsPublished(w, TRUE) /\ OutboxFrame
    \/ Tick /\ ClockFrame

SpecDrain ==
    /\ SpecDrainInit
    /\ [][SpecDrainNext]_vars
    /\ \A w \in Loops : WF_vars(DrainStep(w))

\* The publisher from Start to Stop over an outbox that holds entries; sends
\* and statements may fail.  The clock stands still here, at 0.
SpecLifecycleInit ==
    /\ LedgerIdle /\ ResIdle /\ CoordIdle /\ RepoIdle /\ ConsumerIdle /\ DrainInit
    /\ now = 0
    /\ LifeInit /\ OtherIdle

SpecLifecycleNext ==
    \/ StartCheck /\ LifeFrame
    \/ StartRefused /\ LifeFrame
    \/ StartLaunch /\ LifeFrame
    \/ TickerFires /\ LifeFrame
    \/ CancelLoopCtx /\ LifeFrame
    \/ SelectTickBatch /\ LifeFrame
    \/ SelectTickNothing /\ LifeFrame
    \/ SelectStop /\ LifeFrame
    \/ \E sent \in BOOLEAN : LoopPublishEntry(sent) /\ LifeFrame
    \/ \E dbOk \in BOOLEAN : LoopMarkAsPublished(dbOk) /\ LifeFrame
    \/ \E dbOk \in BOOLEAN : LoopRecordPublishError(dbOk) /\ LifeFrame
    \/ StopBegin /\ LifeFrame
    \/ StopAgain /\ LifeFrame
    \/ StopDeadline /\ LifeFrame
    \/ StopDrained /\ LifeFrame
    \/ StopTimedOut /\ LifeFrame
    \/ StopCloseProducer /\ LifeFrame

SpecLifecycle == SpecLifecycleInit /\ [][SpecLifecycleNext]_vars

\* Ledger mutations with the detector, and operators acknowledging and
\* resolving alerts, at a clock value that Init draws.
AlertFrame ==
    UNCHANGED <<now, ledgerVars, resVars, repoVars, consumerVars, outboxVars, lifeVars,
                backoffVars, jwtVars, rbacVars, allocVars, lateVars>>

SpecAlertInit ==
    /\ now \in Time
    /\ LedgerIdle /\ ResIdle /\ AlertInit /\ RepoIdle /\ ConsumerIdle /\ OutboxIdle
    /\ LifeIdle /\ BackoffIdle /\ JwtIdle /\ RbacIdle /\ AllocIdle /\ LateIdle

SpecAlertNext ==
    \/ \E sid \in StockIds, op \in AlertOps, q \in 0..MaxQty :
          LedgerMutation(sid, op, q) /\ AlertFrame
    \/ \E i \in 1..MaxAlerts, u \in Users : AcknowledgeAlert(i, u) /\ AlertFrame
    \/ \E i \in 1..MaxAlerts : ResolveAlert(i) /\ AlertFrame

SpecAlert == SpecAlertInit /\ [][SpecAlertNext]_vars

\* One processing loop polling on its ticker over an outbox that holds
\* entries; sends and statements may fail.
BackoffFrame ==
    UNCHANGED <<now, ledgerVars, resVars, coordVars, repoVars, consumerVars, lifeVars,
                alertVars, jwtVars, rbacVars, allocVars, lateVars>>

SpecBackoffInit ==
    /\ LedgerIdle /\ ResIdle /\ CoordIdle /\ RepoIdle /\ ConsumerIdle /\ DrainInit
    /\ LifeIdle /\ AlertIdle /\ BackoffInit /\ JwtIdle /\ RbacIdle /\ AllocIdle /\ LateIdle

SpecBackoffNext ==
    \/ BackoffClock /\ BackoffFrame
    \/ PollBatch /\ BackoffFrame
    \/ PollNothing /\ BackoffFrame
    \/ \E sent \in BOOLEAN : BackoffPublishEntry(sent) /\ BackoffFrame
    \/ \E dbOk \in BOOLEAN : BackoffMarkAsPublished(dbOk) /\ BackoffFrame
    \/ \E dbOk \in BOOLEAN : BackoffRecordPublishError(dbOk) /\ BackoffFrame

SpecBackoff == SpecBackoffInit /\ [][SpecBackoffNext]_vars

\* JWKS refreshes and key lookups of requests.
JwtFrame ==
    UNCHANGED <<now, ledgerVars, resVars, coordVars, repoVars, consumerVars, outboxVars,
                lifeVars, alertVars, backoffVars, rbacVars, allocVars, lateVars>>

SpecJWKSInit ==
    /\ now = 0
    /\ LedgerIdle /\ ResIdle /\ CoordIdle /\ RepoIdle /\ ConsumerIdle /\ OutboxIdle
    /\ LifeIdle /\ AlertIdle /\ BackoffIdle /\ JwtInit /\ RbacIdle /\ AllocIdle /\ LateIdle

SpecJWKSNext ==
    \/ \E doc \in JWKSDocs : RefreshLock(doc) /\ JwtFrame
    \/ RefreshStore /\ JwtFrame
    \/ RefreshUnlock /\ JwtFrame
    \/ \E kid \in KeyIds \cup {""} : GetPublicKey(kid) /\ JwtFrame

SpecJWKS == SpecJWKSInit /\ [][SpecJWKSNext]_vars

\* Requests to the registered routes.
RbacFrame ==
    UNCHANGED <<now, ledgerVars, resVars, coordVars, repoVars, consumerVars, outboxVars,
                lifeVars, alertVars, backoffVars, jwtVars, allocVars, lateVars>>

SpecRBACInit ==
    /\ now = 0
    /\ LedgerIdle /\ ResIdle /\ CoordIdle /\ RepoIdle /\ ConsumerIdle /\ OutboxIdle
    /\ LifeIdle /\ AlertIdle /\ BackoffIdle /\ JwtIdle /\ RbacInit /\ AllocIdle /\ LateIdle

SpecRBACNext ==
    \/ \E r \in 1..Len(Routes), v \in ParamValues, roles \in RoleClaims :
          ServeHTTP(r, v, roles) /\ RbacFrame

SpecRBAC == SpecRBACInit /\ [][SpecRBACNext]_vars

\* The allocator called on any snapshot.
AllocFrame ==
    UNCHANGED <<now, ledgerVars, resVars, coordVars, repoVars, consumerVars, outboxVars,
                lifeVars, alertVars, backoffVars, jwtVars, rbacVars, lateVars>>

SpecAllocatorInit ==
    /\ now = 0
    /\ LedgerIdle /\ ResIdle /\ CoordIdle /\ RepoIdle /\ ConsumerIdle /\ OutboxIdle
    /\ LifeIdle /\ AlertIdle /\ BackoffIdle /\ JwtIdle /\ RbacIdle /\ AllocInit /\ LateIdle

SpecAllocatorNext ==
    \/ \E q \in 1..MaxRequest, pref \in Warehouses \cup {NoPreference} :
          AllocateLine(q, pref) /\ AllocFrame

SpecAllocator == SpecAllocatorInit /\ [][SpecAllocatorNext]_vars

settledVars ==
    <<now, ledgerVars, resVars, coordVars, repoVars, consumerVars, outboxVars, lifeVars,
      alertVars, backoffVars, jwtVars, rbacVars, allocVars>>

SettledIdle ==
    /\ now = 0
    /\ LedgerIdle /\ ResIdle /\ CoordIdle /\ RepoIdle /\ ConsumerIdle /\ OutboxIdle
    /\ LifeIdle /\ AlertIdle /\ BackoffIdle /\ JwtIdle /\ RbacIdle /\ AllocIdle

\* The events of reservations as they are created, released and fulfilled.
EventFrame == UNCHANGED <<settledVars, calcVars, sevVars>>

SpecEventsInit == SettledIdle /\ EventInit /\ CalcIdle /\ SevIdle

SpecEventsNext ==
    \/ \E r \in ReservationIDs : EmitReserved(r) /\ EventFrame
    \/ \E r \in ReservationIDs : EmitReleased(r) /\ EventFrame
    \/ \E r \in ReservationIDs, m \in MovementIDs : EmitDecremented(r, m) /\ EventFrame

SpecEvents == SpecEventsInit /\ [][SpecEventsNext]_vars

\* calculateBackoff on every retry count, in any order.
CalcFrame == UNCHANGED <<settledVars, eventVars, sevVars>>

SpecCalcInit == SettledIdle /\ EventIdle /\ CalcInit /\ SevIdle

SpecCalcNext ==
    \/ \E n \in RetryCounts : Calculate(n) /\ CalcFrame

SpecCalc == SpecCalcInit /\ [][SpecCalcNext]_vars

\* The severity conditions on every available quantity and reorder point.
SevFrame == UNCHANGED <<settledVars, eventVars, calcVars>>

SpecSeverityInit == SettledIdle /\ EventIdle /\ CalcIdle /\ SevInit

SpecSeverityNext ==
    \/ \E a \in 0..MaxPoint, p \in 0..MaxPoint : Classify(a, p) /\ SevFrame

SpecSeverity == SpecSeverityInit /\ [][SpecSeverityNext]_vars

---------------------------------------------------------------------------
(* Claims *)

\* C1: after any sequence of Replenish, Reserve, ReleaseReservation and Fulfill
\* calls on a newly created StockItem, succeeding or not,
\* 0 <= QuantityReserved <= QuantityOnHand.
C1_ReservedWithinOnHand ==
    /\ 0 <= stock.QuantityReserved
    /\ stock.QuantityReserved <= stock.QuantityOnHand

\* A Fulfill succeeded and left the item with all its stock reserved.
C1_Witness ==
    /\ ledgerLast.op = "Fulfill"
    /\ ledgerLast.err = Nil
    /\ ledgerLast.q > 0
    /\ stock.QuantityOnHand > 0
    /\ stock.QuantityReserved = stock.QuantityOnHand

\* Quantity held on stock item s by the reservations that are PENDING or
\* CONFIRMED.
ActiveHeld(s) ==
    SumSeq([i \in 1..Len(reservations) |->
               IF reservations[i].Status \in ActiveStatuses
               THEN QtyOn(reservations[i].Items, s) ELSE 0])

\* C2: in every committed state the coordinator's Reserve, Release, Fulfill and
\* Expire reach, the quantities of the PENDING and CONFIRMED reservation items
\* on a stock item add up to its QuantityReserved.
C2_Conservation ==
    \A s \in StockIds : ActiveHeld(s) = stockItems[s].QuantityReserved

\* C3: once a Reservation is FULFILLED, RELEASED or EXPIRED, every Confirm,
\* Release, Fulfill and Expire call returns an error and leaves the status as
\* it is.
C3_TerminalIrreversible ==
    [][res.Status \in TerminalStatuses =>
          /\ res'.Status = res.Status
          /\ resLast' # resLast => resLast'.err # Nil]_vars

C7_PerAggregateOrder ==
    \A i, j \in 1..Len(outbox) :
        (/\ outbox[i].AggregateID = outbox[j].AggregateID
         /\ outbox[i].CreatedAt < outbox[j].CreatedAt
         /\ FirstOnBus(j) # 0)
        => (FirstOnBus(i) # 0 /\ FirstOnBus(i) < FirstOnBus(j))

\* C8: an entry with published_at set has been delivered to the bus at least
\* once.
C8_PublishedOnlyAfterSend ==
    \A i \in 1..Len(outbox) : outbox[i].PublishedAt # NilTime => FirstOnBus(i) # 0

\* An entry whose send failed at least once is published.
C8_Witness ==
    \E i \in 1..Len(outbox) :
        outbox[i].PublishedAt # NilTime /\ outbox[i].RetryCount > 0

AllPublished == \A i \in 1..Len(outbox) : outbox[i].PublishedAt # NilTime

\* C9: with no failing send or statement and no arrivals, under fair scheduling
\* of the processing loops every outbox entry eventually has published_at set.
C9_OutboxDrains == <>AllPublished

\* A full outbox has drained and the loops are idle.
C9_Witness ==
    /\ Len(outbox) = MaxEntries
    /\ AllPublished
    /\ \A w \in Loops : pub[w].pc = "idle"

\* C10: published_at of a row, once set, is never written again.
C10_PublishedAtSetOnce ==
    [][\A i \in 1..Len(outbox) :
          outbox[i].PublishedAt # NilTime =>
              outbox'[i].PublishedAt = outbox[i].PublishedAt]_vars

\* C14: a Reserve(q) with q > 0 succeeds exactly when q is at most the
\* available quantity; on success QuantityReserved grows by q, and otherwise
\* the call returns ErrInsufficientStock and leaves the item as it was.
C14_ReserveExactlyAvailable ==
    (ledgerLast.op = "Reserve" /\ ledgerLast.q > 0) =>
        /\ ledgerLast.err = Nil <=> ledgerLast.q <= AvailableQuantity(ledgerLast.pre)
        /\ ledgerLast.err = Nil =>
              stock = [ledgerLast.pre EXCEPT !.QuantityReserved = @ + ledgerLast.q]
        /\ ledgerLast.err # Nil =>
              ledgerLast.err = ErrInsufficientStock /\ stock = ledgerLast.pre

\* A Reserve of exactly the available quantity succeeded, and the next Reserve,
\* of one more than what was then available, was refused.
C14_Witness ==
    /\ ledgerLast.prev.op = "Reserve"
    /\ ledgerLast.prev.q > 0
    /\ ledgerLast.prev.q = AvailableQuantity(ledgerLast.prev.pre)
    /\ ledgerLast.prev.err = Nil
    /\ ledgerLast.op = "Reserve"
    /\ ledgerLast.q = AvailableQuantity(ledgerLast.pre) + 1
    /\ ledgerLast.err = ErrInsufficientStock

\* C15: a mutator called with a quantity of zero or less returns an error and
\* changes neither counter.
C15_PositiveQuantityOnly ==
    (ledgerLast.op \in LedgerOps /\ ledgerLast.q <= 0) =>
        ledgerLast.err # Nil /\ stock = ledgerLast.pre

\* C16: for every successful mutation NewStockMovement accepts the movement
\* that records it: its quantity is not zero and its previous and new values
\* are the counters before and after the mutation.
C16_MovementForEveryMutation ==
    (ledgerLast.op \in LedgerOps /\ ledgerLast.err = Nil) =>
        LET mv == MovementOf(ledgerLast.op, ledgerLast.q, ledgerLast.pre, stock)
        IN  /\ mv.err = Nil
            /\ mv.m.Quantity # 0
            /\ mv.m.PreviousOnHand = ledgerLast.pre.QuantityOnHand
            /\ mv.m.NewOnHand = stock.QuantityOnHand
            /\ mv.m.PreviousReserved = ledgerLast.pre.QuantityReserved
            /\ mv.m.NewReserved = stock.QuantityReserved

\* The last call is op(q) and the call before it was a successful Reserve(q).
AfterReserve(op) ==
    /\ ledgerLast.prev.op = "Reserve"
    /\ ledgerLast.prev.err = Nil
    /\ ledgerLast.op = op
    /\ ledgerLast.q = ledgerLast.prev.q

\* C17: a ReleaseReservation(q) that follows a successful Reserve(q) succeeds
\* and leaves QuantityOnHand and QuantityReserved as they were before the
\* Reserve.
C17_ReserveThenRelease ==
    AfterReserve("ReleaseReservation") =>
        /\ ledgerLast.err = Nil
        /\ stock.QuantityOnHand = ledgerLast.prev.pre.QuantityOnHand
        /\ stock.QuantityReserved = ledgerLast.prev.pre.QuantityReserved

\* A positive quantity was reserved on an item that already held a
\* reservation, and then released.
C17_Witness ==
    /\ AfterReserve("ReleaseReservation")
    /\ ledgerLast.q > 0
    /\ ledgerLast.prev.pre.QuantityReserved > 0

\* C18: a Fulfill(q) that follows a successful Reserve(q) succeeds, lowers
\* QuantityOnHand by q and leaves QuantityReserved as it was before the
\* Reserve.
C18_ReserveThenFulfill ==
    AfterReserve("Fulfill") =>
        /\ ledgerLast.err = Nil
        /\ stock.QuantityOnHand = ledgerLast.prev.pre.QuantityOnHand - ledgerLast.q
        /\ stock.QuantityReserved = ledgerLast.prev.pre.QuantityReserved

\* A positive quantity was reserved and then fulfilled, with stock left over.
C18_Witness ==
    /\ AfterReserve("Fulfill")
    /\ ledgerLast.q > 0
    /\ stock.QuantityOnHand > 0

\* C19: Reservation.Fulfill succeeds exactly when the status is PENDING or
\* CONFIRMED; on success the status is FULFILLED and FulfilledAt is the time of
\* the call, and nothing else changes; on an error no field changes.
C19_FulfillFromActiveOnly ==
    resLast.op = "Fulfill" =>
        /\ resLast.err = Nil <=> resLast.pre.Status \in ActiveStatuses
        /\ resLast.err = Nil =>
              res = [resLast.pre EXCEPT !.Status = ReservationStatusFulfilled,
                                        !.FulfilledAt = {resLast.at}]
        /\ resLast.err # Nil => res = resLast.pre

\* Fulfill was called on a RELEASED reservation and refused.
C19_Witness ==
    /\ resLast.op = "Fulfill"
    /\ resLast.pre.Status = ReservationStatusReleased
    /\ resLast.err = ErrReservationAlreadyReleased

\* C20: Reservation.Expire succeeds exactly when the status is PENDING or
\* CONFIRMED, and then only sets the status to EXPIRED; on an error no field
\* changes.
C20_ExpireFromActiveOnly ==
    resLast.op = "Expire" =>
        /\ resLast.err = Nil <=> resLast.pre.Status \in ActiveStatuses
        /\ resLast.err = Nil =>
              res = [resLast.pre EXCEPT !.Status = ReservationStatusExpired]
        /\ resLast.err # Nil => res = resLast.pre

\* Expire was called on a CONFIRMED reservation and succeeded.
C20_Witness ==
    /\ resLast.op = "Expire"
    /\ resLast.pre.Status = ReservationStatusConfirmed
    /\ resLast.err = Nil
    /\ res.Status = ReservationStatusExpired

\* Entry i has used up its retries and is unpublished.
Quarantined(i) ==
    outbox[i].RetryCount >= MaxRetries /\ outbox[i].PublishedAt = NilTime

\* C11: an unpublished entry whose retry_count has reached MaxRetries is put in
\* no batch by fetchPendingEntries, is not sent to the bus, and keeps
\* published_at NULL.
C11_QuarantinedNotSent ==
    [][\A i \in 1..Len(outbox) :
          Quarantined(i) =>
              /\ \A w \in Loops :
                    (pub[w].pc = "idle" /\ pub'[w].pc = "publish") =>
                        \A k \in 1..Len(pub'[w].batch) : pub'[w].batch[k] # i
              /\ Len(bus') > Len(bus) => bus'[Len(bus')] # i
              /\ outbox'[i].PublishedAt = NilTime]_vars

\* C12: once stopCh is closed or the loop's ctx is cancelled, processLoop
\* starts no new batch.
C12_NoBatchAfterClosure ==
    [][(life.stopCh = "closed" \/ life.ctxDone) =>
          (pub[TheLoop].pc = "idle" => pub'[TheLoop].pc = "idle")]_vars

\* C13: no publishEntry runs once Stop has closed the producer.
C13_NoSendOnClosedProducer ==
    [][life.producer = "closed" =>
          (pub[TheLoop].pc = "publish" => pub'[TheLoop].pc = "publish")]_vars

\* C21: a coordinator use case called on a reservation that is EXPIRED is
\* rejected and changes neither the reservation nor any stock item, so the
\* holds released at expiry are released once.
C21_ExpiredReleasedOnce ==
    [][\A rid \in 1..Len(reservations) :
          (/\ reservations[rid].Status = ReservationStatusExpired
           /\ coordLast'.rid = rid
           /\ coordVars' # coordVars)
          => (/\ coordLast'.err # Nil
              /\ stockItems' = stockItems
              /\ reservations' = reservations)]_vars

\* C22: IsExpired holds exactly when the clock is strictly after ExpiresAt and
\* the status is PENDING or CONFIRMED.
C22_EligibleForExpiry ==
    Reservation_IsExpired(res, now) <=>
        (now > res.ExpiresAt /\ res.Status \in ActiveStatuses)

\* C23: a delivery is taken as already processed only when a record with its
\* event_id and its topic exists.
C23_KeyedByEventAndTopic ==
    \A c \in ConsumerIds :
        (consumers[c].pc = "handling" /\ consumers[c].seen) =>
            consumers[c].msg \in processed

\* C29: Reservation.Confirm succeeds exactly when the status is PENDING and the
\* time of the call is not after ExpiresAt; on success only the status
\* changes, to CONFIRMED; on an error no field changes.
C29_ConfirmPendingUnexpired ==
    resLast.op = "Confirm" =>
        /\ resLast.err = Nil <=>
              (/\ resLast.pre.Status = ReservationStatusPending
               /\ ~(resLast.at > resLast.pre.ExpiresAt))
        /\ resLast.err = Nil =>
              res = [resLast.pre EXCEPT !.Status = ReservationStatusConfirmed]
        /\ resLast.err # Nil => res = resLast.pre

\* Confirm was called on a PENDING reservation after its ExpiresAt and refused.
C29_Witness ==
    /\ resLast.op = "Confirm"
    /\ resLast.pre.Status = ReservationStatusPending
    /\ resLast.at > resLast.pre.ExpiresAt
    /\ resLast.err = ErrReservationExpired

\* C25: in every reachable state each stock_item_id has at most one
\* LowStockAlert whose status is ACTIVE or ACKNOWLEDGED.
C25_OneOpenAlertPerStockItem ==
    \A sid \in StockIds :
        Cardinality({i \in 1..Len(alerts) :
                        /\ alerts[i].StockItemID = sid
                        /\ alerts[i].Status \in OpenStatuses}) <= 1

\* A stock item whose first alert was resolved has a second alert, which was
\* acknowledged, while the stock item is low.
C25_Witness ==
    \E i, j \in 1..Len(alerts) :
        /\ i < j
        /\ alerts[i].StockItemID = alerts[j].StockItemID
        /\ alerts[i].Status = AlertStatusResolved
        /\ alerts[j].Status = AlertStatusAcknowledged
        /\ StockItem_IsLowStock(stockItems[alerts[j].StockItemID])

\* C30: an alert that is RESOLVED never changes: Acknowledge and Resolve on it
\* return ErrAlertAlreadyResolved and no step changes any of its fields; from
\* ACTIVE or ACKNOWLEDGED, Resolve returns nil, sets the status RESOLVED and
\* ResolvedAt to the time of the call, and changes nothing else.
C30_ResolvedIsFinal ==
    /\ [](alertLast.op \in {"Acknowledge", "Resolve"} =>
            /\ alertLast.pre.Status = AlertStatusResolved =>
                  /\ alertLast.err = ErrAlertAlreadyResolved
                  /\ alerts[alertLast.id] = alertLast.pre
            /\ (alertLast.op = "Resolve" /\ alertLast.pre.Status \in OpenStatuses) =>
                  /\ alertLast.err = Nil
                  /\ alerts[alertLast.id] =
                        [alertLast.pre EXCEPT !.Status = AlertStatusResolved,
                                              !.ResolvedAt = {now}])
    /\ [][\A i \in 1..Len(alerts) :
             alerts[i].Status = AlertStatusResolved => alerts'[i] = alerts[i]]_vars

\* Resolve was called on a RESOLVED alert that had been acknowledged before.
C30_Witness ==
    /\ alertLast.op = "Resolve"
    /\ alertLast.pre.Status = AlertStatusResolved
    /\ alertLast.pre.AcknowledgedBy # NilUser
    /\ alertLast.err = ErrAlertAlreadyResolved

\* C24: an entry whose send failed is not in a fetched batch before the
\* interval calculateBackoff gave for its retry count has passed since the
\* failure.
C24_BackoffBeforeReselection ==
    [][\A i \in 1..Len(outbox) :
          (/\ pub[TheLoop].pc = "idle"
           /\ pub'[TheLoop].pc = "publish"
           /\ \E k \in 1..Len(pub'[TheLoop].batch) : pub'[TheLoop].batch[k] = i)
          => \A f \in backoff.lastFail[i] : backoff.clock >= f.at + f.wait]_vars

\* C27: once a refresh has completed and none is in progress, the key ids in
\* the map are exactly the ids of the keys of the last fetched JWKS that
\* refreshJWKS stores, plus "default" when a key was configured.
C27_RefreshSwapsWholeMap ==
    (jwt.refreshed /\ jwt.mu = "free") =>
        DOMAIN jwt.publicKeys =
            {jwt.jwks[i].Kid : i \in {j \in 1..Len(jwt.jwks) : StoredByRefresh(jwt.jwks[j])}}
            \cup (IF jwt.static THEN {DefaultKid} ELSE {})

\* C28: for every request to a registered /api/v1/ route the middleware finds
\* a non-empty required permission, and a caller none of whose roles grants
\* it gets 403 and the handler is not invoked.
C28_EveryRouteProtected ==
    rbac.served =>
        /\ getRequiredPermission(rbac.method, rbac.path) # ""
        /\ ~hasPermission(rbac.roles, getRequiredPermission(rbac.method, rbac.path)) =>
              (rbac.status = 403 /\ ~rbac.invoked)

\* Quantity that a plan takes from a warehouse.
PlanQty(plan, w) ==
    IF \E i \in 1..Len(plan) : plan[i][1] = w
    THEN plan[CHOOSE i \in 1..Len(plan) : plan[i][1] = w][2]
    ELSE 0

\* The snapshot and request of the cross-warehouse scenario.
CrossWarehouseCase ==
    /\ alloc.done
    /\ alloc.snapshot["W1"] = [Available |-> 2, Priority |-> 1, IsActive |-> TRUE]
    /\ alloc.snapshot["W2"] = [Available |-> 5, Priority |-> 2, IsActive |-> TRUE]
    /\ ~alloc.snapshot["W3"].IsActive
    /\ alloc.quantity = 4
    /\ alloc.preferred = NoPreference

C33_MutatorFrame ==
    ledgerLast.op \in LedgerOps =>
        /\ ledgerLast.err # Nil =>
              /\ stock.QuantityOnHand = ledgerLast.pre.QuantityOnHand
              /\ stock.QuantityReserved = ledgerLast.pre.QuantityReserved
        /\ (ledgerLast.err = Nil /\ ledgerLast.op \in {"Reserve", "ReleaseReservation"}) =>
              stock.QuantityOnHand = ledgerLast.pre.QuantityOnHand
        /\ (ledgerLast.err = Nil /\ ledgerLast.op = "Replenish") =>
              stock.QuantityReserved = ledgerLast.pre.QuantityReserved
        /\ stock.ReorderPoint = ledgerLast.pre.ReorderPoint
        /\ stock.ReorderQuantity = ledgerLast.pre.ReorderQuantity

\* A ReleaseReservation of more than is held was refused on an item that holds
\* a reservation.
C33_Witness ==
    /\ ledgerLast.op = "ReleaseReservation"
    /\ ledgerLast.err = ErrInsufficientReserved
    /\ ledgerLast.pre.QuantityReserved > 0

\* C34: ReleasedAt is set exactly when the status is RELEASED, FulfilledAt
\* exactly when it is FULFILLED, and never both.
C34_TimestampsMatchStatus ==
    /\ res.ReleasedAt # NilTime <=> res.Status = ReservationStatusReleased
    /\ res.FulfilledAt # NilTime <=> res.Status = ReservationStatusFulfilled
    /\ ~(res.ReleasedAt # NilTime /\ res.FulfilledAt # NilTime)

\* A reservation that was EXPIRED has been released.
C34_Witness ==
    /\ resLast.op = "Release"
    /\ resLast.err = Nil
    /\ resLast.pre.Status = ReservationStatusExpired
    /\ res.ReleasedAt # NilTime

\* C35: Confirm and Fulfill called on a PENDING or CONFIRMED reservation after
\* its ExpiresAt return an error and change nothing.
C35_PastExpiryRejected ==
    (/\ resLast.op \in {"Confirm", "Fulfill"}
     /\ resLast.pre.Status \in ActiveStatuses
     /\ resLast.at > resLast.pre.ExpiresAt)
    => (resLast.err # Nil /\ res = resLast.pre)

\* The two routes that list stock movements.
IsMovementListing(method, path) ==
    /\ method = "GET"
    /\ \/ path = ApiV1 \o << <<"stock", "movements">> >>
       \/ /\ Len(path) = 5
          /\ path[3] = <<"stock", "items">>
          /\ path[5] = <<"movements">>

\* C37: on both movement listing routes the required permission is
\* movement:read, and a caller none of whose roles grants movement:read gets
\* 403 and the handler is not invoked.
C37_MovementListingNeedsMovementRead ==
    (rbac.served /\ IsMovementListing(rbac.method, rbac.path)) =>
        /\ getRequiredPermission(rbac.method, rbac.path) = "movement:read"
        /\ ~hasPermission(rbac.roles, "movement:read") =>
              (rbac.status = 403 /\ ~rbac.invoked)

\* C31: a Start called once the publisher is stopped returns the error and
\* launches no processLoop; a further Stop returns nil and leaves stopCh and
\* the producer as they are; and once Stop has returned without timing out no
\* processLoop runs publishEntry.
C31_LifecycleOneWay ==
    [][/\ (life.stopped /\ life'.refused # life.refused) =>
              (life'.refused /\ life'.loop = life.loop)
       /\ (life'.stopAgain # life.stopAgain) =>
              (life'.stopCh = life.stopCh /\ life'.producer = life.producer)
       /\ (life.stop = "returned" /\ ~life.timedOut) =>
              (pub[TheLoop].pc = "publish" => pub'[TheLoop].pc = "publish")]_vars

\* C32: calculateBackoff starts at RetryBackoff for retry count 0 and, from one
\* retry count to the next, doubles or stops at MaxBackoff, which makes it
\* min(RetryBackoff * 2^n, MaxBackoff); it is never zero or negative, never
\* above MaxBackoff, and non-decreasing in the retry count.
C32_BackoffDoublesToCap ==
    \A n \in RetryCounts : \A d \in calc[n] :
        /\ 0 < d /\ d <= MaxBackoff
        /\ n = 0 => d = RetryBackoff
        /\ n > 0 => \A p \in calc[n - 1] :
              /\ p <= d
              /\ d = IF 2 * p <= MaxBackoff THEN 2 * p ELSE MaxBackoff

\* C32 witness: the backoff was calculated for retry counts 0 and 1 and for a
\* retry count at which the product exceeds MaxBackoff.
C32_Witness ==
    /\ calc[0] = {RetryBackoff}
    /\ calc[1] = {2 * RetryBackoff}
    /\ \E n \in RetryCounts :
          calc[n] = {MaxBackoff} /\ RetryBackoff * Pow2(n) > MaxBackoff

\* C36: the rows written for the events of one reservation carry the same
\* aggregate id, the reservation's id, and with it the same message key.
C36_OneKeyPerReservation ==
    \A k \in 1..Len(emitted) :
        /\ emitted[k].AggregateID = emitted[k].Payload.ReservationID
        /\ \A l \in 1..Len(emitted) :
              emitted[l].Payload.ReservationID = emitted[k].Payload.ReservationID
                  => MessageKey(emitted[l]) = MessageKey(emitted[k])

\* C38: for every post-image with 0 <= available <= reorder_point exactly one
\* of the conditions for WARNING, CRITICAL and OUT_OF_STOCK holds.
C38_ExactlyOneSeverity ==
    (sev.called /\ 0 <= sev.available /\ sev.available <= sev.reorderPoint)
        => Cardinality(sev.severities) = 1

====
